---------------------------- MODULE Spec2Model ----------------------------
(***************************************************************************)
(* Model of the native backend of the markdowner editor                    *)
(* (src-tauri/src/lib.rs, src-tauri/src/print.rs).                         *)
(*                                                                         *)
(* A file path is a natural number >= 1: the code only ever compares paths *)
(* for equality and asks the filesystem whether they exist.  NoPath (0) is *)
(* Option::None where the code carries an Option<path>.                    *)
(***************************************************************************)
EXTENDS Naturals, Sequences, FiniteSets, TLC

\* lib.rs:36  const MAX_RECENT_FILES: usize = 10
MAX_RECENT_FILES == 10

\* ------------------------------------------------------------- bounds ----
\* Path universe of the interleaving specification Spec: paths 1..NPaths.
NPaths == 3
\* Longest list the persisted store holds before the first start, under Spec.
MaxStored == 2
\* Most files of the path universe that may have been deleted from the disk,
\* under SpecLoad.
MaxMissing == 1

NoPath == 0
\* The registry Mutex when no command holds it.
Unlocked == 0
Paths == 1..NPaths

VARIABLES
  recents,   \* RecentFilesState: the Mutex<Vec<String>>, most recent first
  disk,      \* what the store file app_data.bin holds under "recent_files"
  fs,        \* the paths that exist on the filesystem (PathBuf::exists)
  running,   \* TRUE between the setup hook of run() and the process' exit
  last,      \* the last registry mutation handled: command, path, outcome
  listed,    \* what get_recent_files returned, when it was the last command
  tracking,  \* whether the calls of add_to_recents_internal, and what a
             \* print request finds and removes in the print directory, are
             \* recorded
  base,      \* recorded: the sequence last installed by run or left by clear
  touched,   \* recorded: the paths passed to add_to_recents_internal since
             \* then, oldest first
  pc,        \* per command in flight: where its handler stands
  call,      \* per command in flight: the command and its path
  lock,      \* the registry Mutex: the command that holds it, or Unlocked
  ret,       \* per command in flight: what get_recent_files returned
  pending,   \* PendingFileState: the Mutex<Option<String>>, with the number
             \* of the write that put the value there
  pendingLock, \* the Mutex of PendingFileState: its holder, or Unlocked
  ppc,       \* per pending-file command or open event: where it stands
  pcall,     \* per pending-file command or open event: what it is
  takes,     \* recorded: the write numbers get_pending_file returned, in
             \* the order of the takes (NoWrite for None)
  written,   \* recorded: the writes to the slot since the last take
  nwrites,   \* recorded: how many writes to the slot there have been
  emitted,   \* the payload of the last DOCK_OPEN_FILE_EVENT emitted
  objects,   \* the filesystem objects at the paths read_file/write_file get
  result,    \* the last read_file/write_file call: arguments, result, and
             \* the filesystem operations it performed
  printDir,  \* the .html files of the print directory: name and time of
             \* modification
  printDirExists, \* whether the print directory exists
  mclock,    \* the modification time the next file written gets
  now,       \* the system clock, in seconds
  jpc,       \* per print request: where print_markdown or its thread stands
  job,       \* per print request: its title, listing, file name, label,
             \* and the record of what it did
  windows,   \* the print requests whose window is open
  lastWritten \* recorded: per path, the content of the last successful
             \* write_file, while the object at the path is untouched since

\* The registry proper, and the record of its calls.
registry == <<recents, disk, fs, running, last, listed>>
calls == <<tracking, base, touched>>
\* The commands in flight, for the specification that runs them step by step.
flight == <<pc, call, lock, ret>>
\* The pending-file slot and the commands that reach it.
slot == <<pending, pendingLock, ppc, pcall, takes, written, nwrites, emitted>>
\* The files behind read_file and write_file.
fileio == <<objects, result, lastWritten>>
\* The print directory, the print requests and their windows.
printing == <<printDir, printDirExists, mclock, now, jpc, job, windows>>
\* What the registry commands leave alone.
beyond == <<slot, fileio, printing>>
recentFiles == <<registry, calls, flight>>
vars == <<recentFiles, beyond>>

\* ------------------------------------------------- sequence helpers ------
RECURSIVE retain(_, _)
\* Vec::retain(|p| p != &path): drops every occurrence of path, keeps order.
retain(s, path) ==
  IF s = <<>> THEN <<>>
  ELSE IF Head(s) = path THEN retain(Tail(s), path)
       ELSE <<Head(s)>> \o retain(Tail(s), path)

\* Vec::insert(0, path)
insert0(s, path) == <<path>> \o s

\* Mutant of truncate: the length check is dropped, nothing is cut.
truncate_none(s, n) == s

\* Mutant of truncate: the cut keeps the last n entries, not the first n.
truncate_keep_last(s, n) ==
  IF Len(s) > n THEN SubSeq(s, Len(s) - n + 1, Len(s)) ELSE s

\* if len > n { truncate(n) }  and  Iterator::take(n)
truncate(s, n) == IF Len(s) > n THEN SubSeq(s, 1, n) ELSE s

RECURSIVE filter_exists(_, _)
\* .into_iter().filter(|path| PathBuf::from(path).exists())
filter_exists(s, existing) ==
  IF s = <<>> THEN <<>>
  ELSE IF Head(s) \in existing THEN <<Head(s)>> \o filter_exists(Tail(s), existing)
       ELSE filter_exists(Tail(s), existing)

\* ---------------------------------------------------- the store file -----
\* The value under RECENT_FILES_KEY as load sees it:
\*   "list"       a JSON array of strings (files)
\*   "nokey"      the store opens, the key is absent (a first start)
\*   "malformed"  a JSON value that is not an array of strings; files are the
\*                strings it nevertheless contains
\*   "unopenable" app.store(STORE_FILE) fails
StoreList(files) == [kind |-> "list", files |-> files]
StoreNoKey == [kind |-> "nokey", files |-> <<>>]
StoreUnopenable == [kind |-> "unopenable", files |-> <<>>]
StoreMalformed(files) == [kind |-> "malformed", files |-> files]

\* Outcome of one save_recent_files_to_store call: "failed" is either error
\* branch (app.store() fails, or store.save() fails); both print and return.
StoreOutcomes == {"ok", "failed"}

\* Mutant of load_recent_files_from_store: a lenient parse that keeps the
\* strings of a value that is not an array of strings.
load_recent_files_lenient(d, existing) ==
  IF d.kind \in {"list", "malformed"}
  THEN truncate(filter_exists(d.files, existing), MAX_RECENT_FILES)
  ELSE <<>>

\* Mutant of load_recent_files_from_store: take(10) comes before the filter.
load_recent_files_take_first(d, existing) ==
  IF d.kind = "list"
  THEN filter_exists(truncate(d.files, MAX_RECENT_FILES), existing)
  ELSE <<>>

\* load_recent_files_from_store
load_recent_files_from_store(d, existing) ==
  IF d.kind = "list"
  THEN truncate(filter_exists(d.files, existing), MAX_RECENT_FILES)
  ELSE <<>>

\* Mutant of save_recent_files_to_store: store.set without store.save, the
\* file is never written.
save_recent_files_unsaved(d, files, io) == d

\* save_recent_files_to_store: the new content of the store file.  A store
\* that cannot be opened, or whose save() fails, keeps what it held: both
\* errors are printed and dropped.
save_recent_files_to_store(d, files, io) ==
  IF io = "ok" THEN StoreList(files) ELSE d

\* Mutant of add_to_recents_vec: push (to the back) instead of insert(0, ..).
add_to_recents_vec_push(r, path) ==
  truncate(Append(retain(r, path), path), MAX_RECENT_FILES)

\* Mutant of add_to_recents_vec: the retain is missing.
add_to_recents_vec_noretain(r, path) ==
  truncate(insert0(r, path), MAX_RECENT_FILES)

\* The Vec after add_to_recents_internal: retain, insert(0), truncate.
add_to_recents_vec(r, path) ==
  truncate(insert0(retain(r, path), path), MAX_RECENT_FILES)

\* The record kept of the last registry mutation: op is "touch" (add_to_recents
\* and both dialogs end in add_to_recents_internal), "clear" or "none";
\* rebooted says the process has been started again since.
Mutation(op, path, io) ==
  [op |-> op, path |-> path, saved |-> (io = "ok"), rebooted |-> FALSE]
NoMutation == [op |-> "none", path |-> NoPath, saved |-> FALSE, rebooted |-> FALSE]
NotListed == [some |-> FALSE, files |-> <<>>]
Listed(files) == [some |-> TRUE, files |-> files]

\* -------------------------------------------------------- operations -----
\* add_to_recents_internal, the whole critical section: lock, retain,
\* insert(0), truncate, save, unlock.
add_to_recents_internal(path, io) ==
  /\ running
  /\ recents' = add_to_recents_vec(recents, path)
  /\ disk' = save_recent_files_to_store(disk, recents', io)
  /\ last' = Mutation("touch", path, io)
  /\ listed' = NotListed
  /\ touched' = IF tracking THEN Append(touched, path) ELSE touched
  /\ UNCHANGED <<beyond, fs, running, tracking, base, flight>>

\* #[tauri::command] add_to_recents
add_to_recents(path, io) == add_to_recents_internal(path, io)

\* A dialog that returned None (cancelled, or a pick that is no path).
DialogCancelled ==
  /\ running
  /\ listed' = NotListed
  /\ UNCHANGED <<beyond, recents, disk, fs, running, last, calls, flight>>

\* #[tauri::command] open_file_dialog: pick is the dialog's answer.
open_file_dialog(pick, io) ==
  IF pick = NoPath THEN DialogCancelled
  ELSE add_to_recents_internal(pick, io)

\* #[tauri::command] save_file_dialog
save_file_dialog(pick, io) ==
  IF pick = NoPath THEN DialogCancelled
  ELSE add_to_recents_internal(pick, io)

\* #[tauri::command] get_recent_files
get_recent_files ==
  /\ running
  /\ listed' = Listed(recents)
  /\ UNCHANGED <<beyond, recents, disk, fs, running, last, calls, flight>>

\* Mutant of clear_recent_files: the Vec is cleared, the store is not saved.
clear_recent_files_nosave(io) ==
  /\ running
  /\ recents' = <<>>
  /\ last' = [op |-> "clear", path |-> NoPath, saved |-> (io = "ok"), rebooted |-> FALSE]
  /\ listed' = [some |-> FALSE, files |-> <<>>]
  /\ base' = <<>>
  /\ touched' = <<>>
  /\ UNCHANGED <<beyond, disk, fs, running, tracking, flight>>

\* #[tauri::command] clear_recent_files
clear_recent_files(io) ==
  /\ running
  /\ recents' = <<>>
  /\ disk' = save_recent_files_to_store(disk, <<>>, io)
  /\ last' = Mutation("clear", NoPath, io)
  /\ listed' = NotListed
  /\ base' = <<>>
  /\ touched' = <<>>
  /\ UNCHANGED <<beyond, fs, running, tracking, flight>>

\* run(): the setup hook loads the store and installs the registry.
run ==
  /\ ~running
  /\ running' = TRUE
  /\ recents' = load_recent_files_from_store(disk, fs)
  /\ last' = [last EXCEPT !.rebooted = TRUE]
  /\ listed' = NotListed
  /\ base' = IF tracking THEN recents' ELSE base
  /\ touched' = <<>>
  /\ UNCHANGED <<beyond, disk, fs, tracking, flight>>

\* The process ends: the managed state is dropped, the store file stays.
Exit ==
  /\ running
  /\ running' = FALSE
  /\ recents' = <<>>
  /\ listed' = NotListed
  /\ UNCHANGED <<beyond, disk, fs, last, calls, flight>>

\* Somebody deletes a file the registry may name (universe: the paths of
\* the specification).
FileDeleted(universe, path) ==
  /\ path \in fs
  /\ Cardinality(universe \ fs) < MaxMissing
  /\ fs' = fs \ {path}
  /\ UNCHANGED <<beyond, recents, disk, running, last, listed, calls, flight>>

\* ------------------------------------- state outside the registry -------
\* PendingFileState holding None (id 0: no write put a value there).
NoWrite == [path |-> NoPath, id |-> 0]
\* A value of PendingFileState: Some(path), put there by write number id.
Write(path, id) == [path |-> path, id |-> id]
\* No read_file or write_file call yet.
NoResult == [cmd |-> "none"]

\* The pending-file slot and the files, in the specifications that only
\* exercise the registry: as app.manage leaves the slot, and no file command.
SlotIdle ==
  /\ pending = NoWrite
  /\ pendingLock = Unlocked
  /\ ppc = <<>>
  /\ pcall = <<>>
  /\ takes = <<>>
  /\ written = <<>>
  /\ nwrites = 0
  /\ emitted = NoPath
FilesIdle ==
  /\ objects = <<>>
  /\ result = NoResult
  /\ lastWritten = <<>>
PrintIdle ==
  /\ printDir = {}
  /\ printDirExists = FALSE
  /\ mclock = 1
  /\ now = 1
  /\ jpc = <<>>
  /\ job = <<>>
  /\ windows = {}
BeyondIdle == SlotIdle /\ FilesIdle /\ PrintIdle

\* ------------------------------------------------------ specification ----
RECURSIVE SeqsUpTo(_, _)
\* All sequences over S of length at most n.
SeqsUpTo(S, n) ==
  IF n = 0 THEN {<<>>}
  ELSE LET shorter == SeqsUpTo(S, n - 1)
       IN shorter \cup {<<x>> \o s : x \in S, s \in {t \in shorter : Len(t) = n - 1}}

StoredLists == SeqsUpTo(Paths, MaxStored)

\* What the store file may hold before the process starts.
StoreValues ==
  {StoreList(s) : s \in StoredLists}
    \cup {StoreMalformed(s) : s \in SeqsUpTo(Paths, 1)}
    \cup {StoreNoKey, StoreUnopenable}

Init ==
  /\ disk \in StoreValues
  /\ fs = Paths
  /\ running = FALSE
  /\ recents = <<>>
  /\ last = NoMutation
  /\ listed = NotListed
  /\ tracking = FALSE
  /\ base = <<>>
  /\ touched = <<>>
  /\ pc = <<>>
  /\ call = <<>>
  /\ lock = Unlocked
  /\ ret = <<>>
  /\ BeyondIdle

Next ==
  \/ run
  \/ Exit
  \/ get_recent_files
  \/ \E path \in Paths, io \in StoreOutcomes : add_to_recents(path, io)
  \/ \E pick \in Paths \cup {NoPath}, io \in StoreOutcomes : open_file_dialog(pick, io)
  \/ \E pick \in Paths \cup {NoPath}, io \in StoreOutcomes : save_file_dialog(pick, io)
  \/ \E io \in StoreOutcomes : clear_recent_files(io)

Spec == Init /\ [][Next]_vars

\* ------------------------------------------- specification SpecLRU -------
\* Long runs of touches from a first start (an empty registry), to fill the
\* registry past MAX_RECENT_FILES.  The
\* code compares paths only for equality, so a run names its paths in the
\* order it first touches them: a touch is of the next path not seen so far,
\* or of a path seen before.  The calls are recorded (tracking), and every
\* save of the store succeeds (Spec covers the saves that fail).

\* Touches of a not yet seen path in one run.
MaxFresh == 15
\* Touches of a path seen before, between two resets of the record.
MaxRetouch == 1

LRUPaths == 1..MaxFresh

SetMax(S) == IF S = {} THEN 0 ELSE CHOOSE x \in S : \A y \in S : y <= x

\* The paths the run has seen: installed or touched.
SeenPaths ==
  {base[i] : i \in DOMAIN base} \cup {touched[i] : i \in DOMAIN touched}

FreshPath == SetMax(SeenPaths) + 1

\* The recorded touches of a path that had been seen when it was touched.
Retouches ==
  {i \in DOMAIN touched :
     \/ touched[i] \in {base[k] : k \in DOMAIN base}
     \/ \E j \in 1..(i - 1) : touched[j] = touched[i]}

\* add_to_recents on a path the run has not seen.
TouchFresh(io) ==
  /\ FreshPath \in LRUPaths
  /\ Len(touched) - Cardinality(Retouches) < MaxFresh
  /\ add_to_recents(FreshPath, io)

\* add_to_recents on a path the run has seen (in the list, or evicted).
TouchAgain(path, io) ==
  /\ Cardinality(Retouches) < MaxRetouch
  /\ path \in SeenPaths
  /\ add_to_recents(path, io)

InitLRU ==
  /\ disk = StoreNoKey
  /\ fs = LRUPaths
  /\ running = FALSE
  /\ recents = <<>>
  /\ last = NoMutation
  /\ listed = NotListed
  /\ tracking = TRUE
  /\ base = <<>>
  /\ touched = <<>>
  /\ pc = <<>>
  /\ call = <<>>
  /\ lock = Unlocked
  /\ ret = <<>>
  /\ BeyondIdle

NextLRU ==
  \/ run
  \/ get_recent_files
  \/ TouchFresh("ok")
  \/ \E path \in LRUPaths : TouchAgain(path, "ok")
  \/ clear_recent_files("ok")

SpecLRU == InitLRU /\ [][NextLRU]_vars

\* ------------------------------------------ specification SpecLoad -------
\* A start on a store file that holds up to MaxStoredLoad entries over the
\* MAX_RECENT_FILES + 2 paths 1..12, some of whose files have been deleted,
\* followed by one mutation of the registry it installs.

\* Longest list the store file holds before the start, under SpecLoad.
MaxStoredLoad == 13

LoadPaths == 1..(MAX_RECENT_FILES + 2)

\* 1, 2, .., 12, 1, ..  and  12, 11, .., 1, 12, ..  cut to k entries.
Ascending(k) == [i \in 1..k |-> ((i - 1) % Cardinality(LoadPaths)) + 1]
Descending(k) == [i \in 1..k |-> Cardinality(LoadPaths) - ((i - 1) % Cardinality(LoadPaths))]

LoadStoreValues ==
  {StoreList(Ascending(k)) : k \in 0..MaxStoredLoad}
    \cup {StoreList(Descending(k)) : k \in 0..MaxStoredLoad}
    \cup {StoreNoKey}

\* add_to_recents, as the first mutation after the start.
FirstTouch(path, io) ==
  /\ last.rebooted
  /\ add_to_recents(path, io)

\* clear_recent_files, as the first mutation after the start.
FirstClear(io) ==
  /\ last.rebooted
  /\ clear_recent_files(io)

InitLoad ==
  /\ disk \in LoadStoreValues
  /\ fs = LoadPaths
  /\ running = FALSE
  /\ recents = <<>>
  /\ last = NoMutation
  /\ listed = NotListed
  /\ tracking = TRUE
  /\ base = <<>>
  /\ touched = <<>>
  /\ pc = <<>>
  /\ call = <<>>
  /\ lock = Unlocked
  /\ ret = <<>>
  /\ BeyondIdle

NextLoad ==
  \/ run
  \/ get_recent_files
  \/ \E path \in LoadPaths : FileDeleted(LoadPaths, path)
  \/ \E path \in LoadPaths, io \in StoreOutcomes : FirstTouch(path, io)
  \/ \E io \in StoreOutcomes : FirstClear(io)

SpecLoad == InitLoad /\ [][NextLoad]_vars

\* ------------------------------------------ specification SpecConc -------
\* The registry commands as the runtime runs them: each command is its own
\* unit of work and its handler runs statement by statement, so that what one
\* command does between two statements of another is visible.  The Vec is
\* reached only through state.0.lock(): a handler blocks there while another
\* command holds the Mutex, and the guard is dropped when the handler returns.

\* Commands in flight at once.
NCommands == 2

Commands == 1..NCommands
ConcPaths == 1..2

\* What a command may be.
TouchCall(path) == [op |-> "touch", path |-> path]
ListCall == [op |-> "list", path |-> NoPath]
ClearCall == [op |-> "clear", path |-> NoPath]
NoCall == [op |-> "none", path |-> NoPath]
CallValues == {TouchCall(path) : path \in ConcPaths} \cup {ListCall, ClearCall}

\* The front end invokes a command: add_to_recents (or a dialog that returned
\* a path), get_recent_files, clear_recent_files.
Invoke(c, what) ==
  /\ pc[c] = "idle"
  /\ call' = [call EXCEPT ![c] = what]
  /\ pc' = [pc EXCEPT ![c] = "lock"]
  /\ UNCHANGED <<beyond, registry, calls, lock, ret>>

\* Mutant of lock_registry: the Vec is reached without waiting for the Mutex.
lock_registry_nowait(c) ==
  /\ pc[c] = "lock"
  /\ lock' = c
  /\ pc' = [pc EXCEPT ![c] =
              CASE call[c].op = "touch" -> "retain"
                [] call[c].op = "list" -> "clone"
                [] OTHER -> "clear"]
  /\ UNCHANGED <<beyond, registry, calls, call, ret>>

\* state.0.lock().unwrap(): blocks until the Mutex is free.
lock_registry(c) ==
  /\ pc[c] = "lock"
  /\ lock = Unlocked
  /\ lock' = c
  /\ pc' = [pc EXCEPT ![c] =
              CASE call[c].op = "touch" -> "retain"
                [] call[c].op = "list" -> "clone"
                [] OTHER -> "clear"]
  /\ UNCHANGED <<beyond, registry, calls, call, ret>>

\* recents.retain(|p| p != &path)
touch_retain(c) ==
  /\ pc[c] = "retain"
  /\ recents' = retain(recents, call[c].path)
  /\ pc' = [pc EXCEPT ![c] = "insert"]
  /\ UNCHANGED <<beyond, disk, fs, running, last, listed, calls, call, lock, ret>>

\* recents.insert(0, path)
touch_insert(c) ==
  /\ pc[c] = "insert"
  /\ recents' = insert0(recents, call[c].path)
  /\ pc' = [pc EXCEPT ![c] = "truncate"]
  /\ UNCHANGED <<beyond, disk, fs, running, last, listed, calls, call, lock, ret>>

\* if recents.len() > MAX_RECENT_FILES { recents.truncate(MAX_RECENT_FILES) }
touch_truncate(c) ==
  /\ pc[c] = "truncate"
  /\ recents' = truncate(recents, MAX_RECENT_FILES)
  /\ pc' = [pc EXCEPT ![c] = "save"]
  /\ UNCHANGED <<beyond, disk, fs, running, last, listed, calls, call, lock, ret>>

\* recents.clear()
clear_vec(c) ==
  /\ pc[c] = "clear"
  /\ recents' = <<>>
  /\ pc' = [pc EXCEPT ![c] = "save"]
  /\ UNCHANGED <<beyond, disk, fs, running, last, listed, calls, call, lock, ret>>

\* Mutant of store_save: a save that fails ends the handler where it is,
\* the Mutex still held.
store_save_abort(c, io) ==
  /\ pc[c] = "save"
  /\ disk' = save_recent_files_to_store(
               disk, IF call[c].op = "clear" THEN <<>> ELSE recents, io)
  /\ pc' = [pc EXCEPT ![c] = IF io = "ok" THEN "unlock" ELSE "done"]
  /\ UNCHANGED <<beyond, recents, fs, running, last, listed, calls, call, lock, ret>>

\* save_recent_files_to_store(app, &recents), or (.., &[]) in clear.
store_save(c, io) ==
  /\ pc[c] = "save"
  /\ disk' = save_recent_files_to_store(
               disk, IF call[c].op = "clear" THEN <<>> ELSE recents, io)
  /\ pc' = [pc EXCEPT ![c] = "unlock"]
  /\ UNCHANGED <<beyond, recents, fs, running, last, listed, calls, call, lock, ret>>

\* Ok(recents.clone())
list_clone(c) ==
  /\ pc[c] = "clone"
  /\ ret' = [ret EXCEPT ![c] = Listed(recents)]
  /\ pc' = [pc EXCEPT ![c] = "unlock"]
  /\ UNCHANGED <<beyond, registry, calls, call, lock>>

\* Mutant of unlock_registry: the handler returns and the Mutex stays taken.
unlock_registry_leak(c) ==
  /\ pc[c] = "unlock"
  /\ pc' = [pc EXCEPT ![c] = "done"]
  /\ UNCHANGED <<beyond, registry, calls, call, lock, ret>>

\* The handler returns: the MutexGuard is dropped.
unlock_registry(c) ==
  /\ pc[c] = "unlock"
  /\ lock' = IF lock = c THEN Unlocked ELSE lock
  /\ pc' = [pc EXCEPT ![c] = "done"]
  /\ UNCHANGED <<beyond, registry, calls, call, ret>>

\* The lists the registry may hold when the commands arrive.
ConcLists == {l \in SeqsUpTo(ConcPaths, 2) : \A i, j \in DOMAIN l : i # j => l[i] # l[j]}

InitConc ==
  /\ recents \in ConcLists
  /\ disk = StoreList(recents)
  /\ fs = ConcPaths
  /\ running = TRUE
  /\ last = NoMutation
  /\ listed = NotListed
  /\ tracking = FALSE
  /\ base = recents
  /\ touched = <<>>
  /\ pc = [c \in Commands |-> "idle"]
  /\ call = [c \in Commands |-> NoCall]
  /\ lock = Unlocked
  /\ ret = [c \in Commands |-> NotListed]
  /\ BeyondIdle

NextConc ==
  \/ \E c \in Commands, what \in CallValues : Invoke(c, what)
  \/ \E c \in Commands : lock_registry(c)
  \/ \E c \in Commands : touch_retain(c)
  \/ \E c \in Commands : touch_insert(c)
  \/ \E c \in Commands : touch_truncate(c)
  \/ \E c \in Commands : clear_vec(c)
  \/ \E c \in Commands, io \in StoreOutcomes : store_save(c, io)
  \/ \E c \in Commands : list_clone(c)
  \/ \E c \in Commands : unlock_registry(c)

SpecConc == InitConc /\ [][NextConc]_vars

\* ------------------------------------------------------------ helpers ----
Range(s) == {s[i] : i \in DOMAIN s}

NoDuplicates(s) == \A i, j \in DOMAIN s : i # j => s[i] # s[j]

Occurrences(s, x) == Cardinality({i \in DOMAIN s : s[i] = x})

RECURSIVE IsSubsequence(_, _)
\* a can be obtained from b by deleting entries of b (the order is kept).
IsSubsequence(a, b) ==
  IF a = <<>> THEN TRUE
  ELSE IF b = <<>> THEN FALSE
  ELSE IF Head(a) = Head(b) THEN IsSubsequence(Tail(a), Tail(b))
  ELSE IsSubsequence(a, Tail(b))

\* The sequence a restart would read from the store file, before filtering.
PersistedSequence(d) == IF d.kind = "list" THEN d.files ELSE <<>>

\* A step of add_to_recents_internal on path, by any of its three callers.
TouchStep(path) == \E io \in StoreOutcomes : add_to_recents_internal(path, io)

\* =========================================================== claims ======

C3_TouchPutsPathFirst ==
  [][/\ \A p \in Paths :
          TouchStep(p) =>
            /\ recents' # <<>>
            /\ Head(recents') = p
            /\ p \notin Range(Tail(recents'))
            /\ IsSubsequence(Tail(recents'), recents)
     /\ (get_recent_files /\ last.op = "touch" /\ ~last.rebooted) =>
            /\ listed'.files # <<>>
            /\ Head(listed'.files) = last.path
            /\ recents' = recents]_vars

\* C3 witness: a list of three entries was returned right after a touch, and
\* starts with the touched path.
C3_Witness ==
  /\ last.op = "touch" /\ ~last.rebooted
  /\ listed.some /\ Len(listed.files) = 3
  /\ Head(listed.files) = last.path

\* C4 (as claimed): a second touch(p) right after touch(p) changes neither the
\* in-memory nor the persisted sequence, and p is in it once, at the front.
C4_TouchTwiceSameAsOnce ==
  [][\A p \in Paths :
       (last.op = "touch" /\ last.path = p /\ ~last.rebooted /\ TouchStep(p)) =>
          /\ recents' = recents
          /\ disk' = disk
          /\ Occurrences(recents', p) = 1
          /\ Head(recents') = p]_vars

\* C4 (amended): the second touch(p) leaves the in-memory sequence as it was,
\* with p once and at the front; the store file is left as it was unless
\* the first call's save failed and the second's succeeds, and a save that
\* succeeds stores exactly the in-memory sequence.
C4_TouchTwiceIdempotent ==
  [][\A p \in Paths, io \in StoreOutcomes :
       (last.op = "touch" /\ last.path = p /\ ~last.rebooted
          /\ add_to_recents_internal(p, io)) =>
          /\ recents' = recents
          /\ Occurrences(recents', p) = 1
          /\ Head(recents') = p
          /\ (last.saved \/ io # "ok") => disk' = disk
          /\ (io = "ok") => disk' = StoreList(recents')]_vars

\* C4 witness: a path was touched (and saved) while it already stood in a
\* list of three, which the store file now holds too.
C4_Witness ==
  /\ last.op = "touch" /\ last.saved /\ ~last.rebooted
  /\ Len(recents) = 3 /\ Head(recents) = last.path
  /\ disk = StoreList(recents)

\* C6 (as claimed): once clear was the last mutation, every get_recent_files
\* returns the empty sequence, before and after a restart.
C6_ClearedStaysEmpty ==
  (last.op = "clear" /\ listed.some) => listed.files = <<>>

\* C6 (amended): after clear, get_recent_files returns the empty sequence;
\* after a restart it still does provided the save of that clear succeeded.
C6_ClearedEmptyIfSaved ==
  (last.op = "clear" /\ listed.some /\ (last.saved \/ ~last.rebooted))
    => listed.files = <<>>

\* C6 witness: cleared and saved, restarted, listed.
C6_Witness ==
  /\ last.op = "clear" /\ last.saved /\ last.rebooted
  /\ running /\ listed.some /\ listed.files = <<>>

\* C7 (as claimed): while the process runs and no command is executing, the
\* persisted sequence equals the in-memory sequence.
C7_StoreEqualsMemory == running => PersistedSequence(disk) = recents

\* C7 (amended): from a touch or clear whose save succeeded until the next
\* mutation or restart, the store file holds exactly the in-memory sequence.
C7_StoreEqualsMemoryAfterSave ==
  (running /\ last.op \in {"touch", "clear"} /\ last.saved /\ ~last.rebooted)
    => disk = StoreList(recents)

\* C7 witness: a saved touch left two or more entries in memory and on disk.
C7_Witness ==
  /\ running /\ last.op = "touch" /\ last.saved /\ ~last.rebooted
  /\ Len(recents) >= 2 /\ disk = StoreList(recents)

\* C10: when the store cannot be opened, has no recent_files key or holds a
\* value that is not an array of strings, the registry the setup hook
\* installs is empty, and the setup hook can always run.
C10_BadStoreLoadsEmpty ==
  /\ (running /\ last.rebooted /\ disk.kind # "list") => recents = <<>>
  /\ ~running => ENABLED run

\* C10 witness: started on a malformed value that holds a string.
C10_Witness ==
  /\ running /\ last.rebooted /\ last.op = "none"
  /\ disk.kind = "malformed" /\ disk.files # <<>>
  /\ recents = <<>>

\* ---------------------------------------------- claims under SpecLoad ----
\* The indices of the stored entries whose file exists.
Survivors(files, existing) == {i \in DOMAIN files : files[i] \in existing}

\* r is the first n survivors of files, in their stored order.
IsFirstSurvivors(r, files, existing, n) ==
  LET surv == Survivors(files, existing)
  IN /\ Len(r) = IF Cardinality(surv) < n THEN Cardinality(surv) ELSE n
     /\ \A k \in DOMAIN r :
          \E i \in surv :
            /\ Cardinality({j \in surv : j < i}) = k - 1
            /\ r[k] = files[i]

\* C2: the in-memory sequence, and every sequence get_recent_files returns,
\* has at most MAX_RECENT_FILES (10) entries.
C2_AtMostTenEntries ==
  /\ Len(recents) <= MAX_RECENT_FILES
  /\ listed.some => Len(listed.files) <= MAX_RECENT_FILES

\* C2 witness: ten entries were installed, a path not among them was touched,
\* and the list returned after that has ten entries.
C2_Witness ==
  /\ Len(base) = MAX_RECENT_FILES
  /\ last.op = "touch" /\ last.path \notin Range(base)
  /\ listed.some /\ Len(listed.files) = MAX_RECENT_FILES

\* C9: the setup hook installs the stored list without the entries whose
\* file does not exist, in the stored order, cut to the first 10 of them.
C9_LoadFiltersAndTruncates ==
  [][(run /\ disk.kind = "list") =>
       /\ running'
       /\ IsFirstSurvivors(recents', disk.files, fs, MAX_RECENT_FILES)]_vars

\* C9 witness: started on a list of 12 or more entries with a deleted file
\* among the first ten: the entry is dropped and the eleventh moves up.
C9_Witness ==
  /\ running /\ last.rebooted /\ last.op = "none"
  /\ disk.kind = "list" /\ Len(disk.files) >= MAX_RECENT_FILES + 2
  /\ Len(recents) = MAX_RECENT_FILES
  /\ \E i \in 1..MAX_RECENT_FILES :
       disk.files[i] \notin fs /\ disk.files[i] \notin Range(recents)
  /\ recents[MAX_RECENT_FILES] = disk.files[MAX_RECENT_FILES + 1]

\* ----------------------------------------------- claims under SpecLRU ----
\* The place of the last touch of x in the record h.
LastTouch(h, x) == SetMax({i \in DOMAIN h : h[i] = x})

\* r holds the n most recently touched distinct paths of h (all of them when
\* there are fewer), the most recently touched first.
IsMostRecentFirst(r, h, n) ==
  /\ Len(r) = IF Cardinality(Range(h)) < n THEN Cardinality(Range(h)) ELSE n
  /\ \A k \in DOMAIN r :
       /\ r[k] \in Range(h)
       /\ Cardinality({y \in Range(h) : LastTouch(h, y) > LastTouch(h, r[k])}) = k - 1

\* C5: touches that start on an empty registry, or that name more than 10
\* distinct paths, leave the (up to) 10 distinct paths touched last, the
\* most recently touched first; with 10 or more distinct paths, exactly 10.
C5_KeepsTenMostRecent ==
  (running /\ (base = <<>> \/ Cardinality(Range(touched)) > MAX_RECENT_FILES))
    => /\ IsMostRecentFirst(recents, touched, MAX_RECENT_FILES)
       /\ Cardinality(Range(touched)) >= MAX_RECENT_FILES
            => Len(recents) = MAX_RECENT_FILES

\* C5 witness: 15 distinct paths touched from an empty registry, one of them
\* twice; ten entries are left.
C5_Witness ==
  /\ running /\ base = <<>>
  /\ Cardinality(Range(touched)) = 15 /\ Len(touched) = 16
  /\ Len(recents) = MAX_RECENT_FILES

\* ---------------------------------------------- claims under SpecConc ----
RECURSIVE Orders(_)
\* All total orders (sequences without repetition) of the commands in S.
Orders(S) ==
  IF S = {} THEN {<<>>}
  ELSE UNION {{<<c>> \o o : o \in Orders(S \ {c})} : c \in S}

RECURSIVE RunInOrder(_, _)
\* The registry after the commands of order o ran one after another on r:
\* touch is add_to_recents_vec, clear empties, list changes nothing.
RunInOrder(r, o) ==
  IF o = <<>> THEN r
  ELSE LET w == call[Head(o)]
           after == CASE w.op = "touch" -> add_to_recents_vec(r, w.path)
                      [] w.op = "clear" -> <<>>
                      [] OTHER -> r
       IN RunInOrder(after, Tail(o))

\* In the sequential run of o on the registry r0, every get_recent_files
\* returns what the concurrent run returned to it.
ReturnsAgree(r0, o) ==
  \A k \in DOMAIN o :
    call[o[k]].op = "list"
      => ret[o[k]] = Listed(RunInOrder(r0, SubSeq(o, 1, k - 1)))

\* The mutation that comes last in o, if any, is a touch whose path is first.
LastTouchFirst(o) ==
  \A k \in DOMAIN o :
    (/\ call[o[k]].op = "touch"
     /\ \A m \in (k + 1)..Len(o) : call[o[m]].op = "list")
      => (recents # <<>> /\ Head(recents) = call[o[k]].path)

Finished == {c \in DOMAIN pc : pc[c] = "done"}

\* C8: once the commands issued have returned, the registry and every
\* result of get_recent_files are those of the same commands run one after
\* another in some order, and the last touch of that order is at the front.
C8_SomeSequentialOrder ==
  (Finished = Commands) =>
    \E o \in Orders(Commands) :
      /\ recents = RunInOrder(base, o)
      /\ ReturnsAgree(base, o)
      /\ LastTouchFirst(o)

\* C8 witness: two touches of different paths were issued and have both
\* returned; both paths are in the registry, one of them at the front and
\* the other right behind it.
C8_Witness ==
  /\ Finished = Commands
  /\ \E c, d \in Commands :
       /\ call[c].op = "touch" /\ call[d].op = "touch"
       /\ call[c].path # call[d].path
       /\ Len(recents) >= 2
       /\ recents[1] = call[d].path
       /\ recents[2] = call[c].path

\* The commands that hold the Mutex by where they stand.
InCriticalSection ==
  {c \in DOMAIN pc : pc[c] \in {"retain", "insert", "truncate", "clear", "save", "clone", "unlock"}}

\* C26: a save of the store that fails during a touch or a clear leaves the
\* Vec as the command made it and the store file as it was, and the handler
\* goes on to return; a command that has returned does not hold the Mutex,
\* so a command that waits for the Mutex can take it once it is free.
C26_FailedSaveSwallowed ==
  /\ [][\A c \in Commands :
          store_save(c, "failed") =>
            /\ recents' = recents
            /\ disk' = disk
            /\ pc'[c] = "unlock"]_vars
  /\ [](\A c \in Commands :
          /\ (lock = c) <=> (c \in InCriticalSection)
          /\ pc[c] = "unlock" => ENABLED unlock_registry(c)
          /\ (pc[c] = "lock" /\ InCriticalSection = {}) => ENABLED lock_registry(c))

\* C26 witness: a touch whose save failed has returned, its path is at the
\* front of the Vec and not in the store file, and a get_recent_files that
\* took the Mutex after it has returned the Vec with that path.
C26_Witness ==
  \E c, d \in Commands :
    /\ Finished = Commands
    /\ call[c].op = "touch" /\ call[d].op = "list"
    /\ recents # <<>> /\ recents[1] = call[c].path
    /\ call[c].path \notin Range(PersistedSequence(disk))
    /\ ret[d] = Listed(recents)

\* ======================================== specification SpecPending =====
\* The pending-file slot (PendingFileState) as the runtime reaches it: the
\* commands set_pending_file and get_pending_file and the on_open_url
\* handler, each an agent of its own that runs statement by statement.  The
\* Option is reached only through state.0.lock().

\* Agents (commands, open events) in flight at once.
NAgents == 2
\* Writes to the slot in one behaviour.
MaxWrites == 2
\* Takes in one behaviour.
MaxTakes == 2
\* Paths that reach the slot: 1..NPendingPaths.
NPendingPaths == 2
\* URLs in one open event.
MaxUrls == 2

Agents == 1..NAgents
PendingPaths == 1..NPendingPaths

\* The registry, in the specifications that do not exercise it.
RegistryQuiet ==
  /\ recents = <<>>
  /\ disk = StoreNoKey
  /\ fs = {}
  /\ running = TRUE
  /\ last = NoMutation
  /\ listed = NotListed
  /\ base = <<>>
  /\ touched = <<>>
  /\ pc = <<>>
  /\ call = <<>>
  /\ lock = Unlocked
  /\ ret = <<>>
RegistryIdle == RegistryQuiet /\ tracking = FALSE

\* A URL of an open event, by what file_url_to_path makes of it: whether it
\* starts with "file://", whether the rest percent-decodes, and the decoded
\* text (NoPath: the empty string).
Url(isFile, decodes, text) == [isFile |-> isFile, decodes |-> decodes, text |-> text]
Urls ==
  {Url(TRUE, TRUE, p) : p \in PendingPaths \cup {NoPath}}
    \cup {Url(TRUE, FALSE, NoPath), Url(FALSE, TRUE, NoPath)}

\* file_url_to_path(url).unwrap_or_else(String::new): the decoded path, or
\* the empty string when the URL does not decode.  (The handler only calls
\* it on URLs that start with "file://".)
file_url_to_path(url) ==
  IF url.isFile /\ url.decodes THEN url.text ELSE NoPath

RECURSIVE first_file_path(_)
\* The loop of on_open_url over event.urls(): URLs that are not file URLs
\* and URLs whose path comes out empty are skipped, the first other one is
\* processed and the loop breaks.  NoPath: the loop ends with nothing done.
first_file_path(urls) ==
  IF urls = <<>> THEN NoPath
  ELSE IF Head(urls).isFile /\ file_url_to_path(Head(urls)) # NoPath
       THEN file_url_to_path(Head(urls))
       ELSE first_file_path(Tail(urls))

\* What an agent may be doing.
SetCall(path) == [op |-> "set", path |-> path]
OpenCall(urls) == [op |-> "open", path |-> first_file_path(urls)]
TakeCall == [op |-> "take", path |-> NoPath]
NoPendingCall == [op |-> "none", path |-> NoPath]
PendingCalls ==
  {SetCall(path) : path \in PendingPaths}
    \cup {OpenCall(urls) : urls \in SeqsUpTo(Urls, MaxUrls)}
    \cup {TakeCall}

\* Writes and takes begun and not yet performed.
WritesAhead ==
  Cardinality({a \in DOMAIN ppc :
                 pcall[a].op \in {"set", "open"} /\ ppc[a] \in {"lock", "store"}})
TakesAhead ==
  Cardinality({a \in DOMAIN ppc : pcall[a].op = "take" /\ ppc[a] \in {"lock", "read"}})

\* The front end invokes set_pending_file or get_pending_file, or the OS
\* delivers an open event.  An open event without a usable file URL ends
\* without reaching the slot.
InvokePending(a, what) ==
  /\ ppc[a] = "idle"
  /\ what.op \in {"set", "open"} => nwrites + WritesAhead < MaxWrites
  /\ what.op = "take" => Len(takes) + TakesAhead < MaxTakes
  /\ pcall' = [pcall EXCEPT ![a] = what]
  /\ ppc' = [ppc EXCEPT ![a] =
               IF what.op = "open" /\ what.path = NoPath THEN "idle" ELSE "lock"]
  /\ UNCHANGED <<pending, pendingLock, takes, written, nwrites, emitted>>
  /\ UNCHANGED <<recentFiles, fileio, printing>>

\* Mutant of pending_lock: the slot is reached without waiting for the Mutex.
pending_lock_nowait(a) ==
  /\ ppc[a] = "lock"
  /\ pendingLock' = a
  /\ ppc' = [ppc EXCEPT ![a] = IF pcall[a].op = "take" THEN "read" ELSE "store"]
  /\ UNCHANGED <<pending, pcall, takes, written, nwrites, emitted>>
  /\ UNCHANGED <<recentFiles, fileio, printing>>

\* state.0.lock().unwrap(): blocks until the Mutex is free.
pending_lock(a) ==
  /\ ppc[a] = "lock"
  /\ pendingLock = Unlocked
  /\ pendingLock' = a
  /\ ppc' = [ppc EXCEPT ![a] = IF pcall[a].op = "take" THEN "read" ELSE "store"]
  /\ UNCHANGED <<pending, pcall, takes, written, nwrites, emitted>>
  /\ UNCHANGED <<recentFiles, fileio, printing>>

\* Mutant of pending_store: a value already in the slot is kept.
pending_store_keep(a) ==
  /\ ppc[a] = "store"
  /\ pending' = IF pending = NoWrite THEN Write(pcall[a].path, nwrites + 1) ELSE pending
  /\ nwrites' = nwrites + 1
  /\ written' = Append(written, Write(pcall[a].path, nwrites + 1))
  /\ ppc' = [ppc EXCEPT ![a] = IF pcall[a].op = "set" THEN "emit" ELSE "unlock"]
  /\ UNCHANGED <<pendingLock, pcall, takes, emitted>>
  /\ UNCHANGED <<recentFiles, fileio, printing>>

\* *pending = Some(path): set_pending_file goes on to emit under the guard,
\* on_open_url drops the guard first (the end of its block).
pending_store(a) ==
  /\ ppc[a] = "store"
  /\ pending' = Write(pcall[a].path, nwrites + 1)
  /\ nwrites' = nwrites + 1
  /\ written' = Append(written, pending')
  /\ ppc' = [ppc EXCEPT ![a] = IF pcall[a].op = "set" THEN "emit" ELSE "unlock"]
  /\ UNCHANGED <<pendingLock, pcall, takes, emitted>>
  /\ UNCHANGED <<recentFiles, fileio, printing>>

\* Mutant of pending_emit: on_open_url, too, sends what the slot holds.
pending_emit_from_slot(a) ==
  /\ ppc[a] = "emit"
  /\ emitted' = pending.path
  /\ ppc' = [ppc EXCEPT ![a] = IF pcall[a].op = "set" THEN "unlock" ELSE "idle"]
  /\ UNCHANGED <<pending, pendingLock, pcall, takes, written, nwrites>>
  /\ UNCHANGED <<recentFiles, fileio, printing>>

\* app.emit(DOCK_OPEN_FILE_EVENT, ..): set_pending_file sends what the slot
\* holds (pending.clone().unwrap()), on_open_url the path it extracted.
pending_emit(a) ==
  /\ ppc[a] = "emit"
  /\ emitted' = IF pcall[a].op = "set" THEN pending.path ELSE pcall[a].path
  /\ ppc' = [ppc EXCEPT ![a] = IF pcall[a].op = "set" THEN "unlock" ELSE "idle"]
  /\ UNCHANGED <<pending, pendingLock, pcall, takes, written, nwrites>>
  /\ UNCHANGED <<recentFiles, fileio, printing>>

\* pending.take(), first half: the value of the slot is moved out.
pending_take_read(a) ==
  /\ ppc[a] = "read"
  /\ takes' = Append(takes, pending)
  /\ ppc' = [ppc EXCEPT ![a] = "clear"]
  /\ UNCHANGED <<pending, pendingLock, pcall, written, nwrites, emitted>>
  /\ UNCHANGED <<recentFiles, fileio, printing>>

\* pending.take(), second half: None is left in the slot.
pending_take_clear(a) ==
  /\ ppc[a] = "clear"
  /\ pending' = NoWrite
  /\ written' = <<>>
  /\ ppc' = [ppc EXCEPT ![a] = "unlock"]
  /\ UNCHANGED <<pendingLock, pcall, takes, nwrites, emitted>>
  /\ UNCHANGED <<recentFiles, fileio, printing>>

\* The MutexGuard is dropped: at the return of the two commands, at the end
\* of the block in on_open_url (which then emits).
pending_unlock(a) ==
  /\ ppc[a] = "unlock"
  /\ pendingLock' = IF pendingLock = a THEN Unlocked ELSE pendingLock
  /\ ppc' = [ppc EXCEPT ![a] = IF pcall[a].op = "open" THEN "emit" ELSE "idle"]
  /\ UNCHANGED <<pending, pcall, takes, written, nwrites, emitted>>
  /\ UNCHANGED <<recentFiles, fileio, printing>>

\* The slot after the setup hook: None as app.manage leaves it, or the path
\* of the file the application was opened with (deep_link().get_current()),
\* stored and emitted by the setup hook.
InitPending ==
  /\ RegistryIdle
  /\ FilesIdle
  /\ PrintIdle
  /\ \E path \in PendingPaths \cup {NoPath} :
       /\ pending = IF path = NoPath THEN NoWrite ELSE Write(path, 1)
       /\ written = IF path = NoPath THEN <<>> ELSE <<Write(path, 1)>>
       /\ nwrites = IF path = NoPath THEN 0 ELSE 1
       /\ emitted = path
  /\ pendingLock = Unlocked
  /\ ppc = [a \in Agents |-> "idle"]
  /\ pcall = [a \in Agents |-> NoPendingCall]
  /\ takes = <<>>

NextPending ==
  \/ \E a \in Agents, what \in PendingCalls : InvokePending(a, what)
  \/ \E a \in Agents : pending_lock(a)
  \/ \E a \in Agents : pending_store(a)
  \/ \E a \in Agents : pending_emit(a)
  \/ \E a \in Agents : pending_take_read(a)
  \/ \E a \in Agents : pending_take_clear(a)
  \/ \E a \in Agents : pending_unlock(a)

SpecPending == InitPending /\ [][NextPending]_vars

\* ------------------------------------------- claims under SpecPending ----
\* The most recent write not yet consumed, or None.
LatestUnconsumed == IF written = <<>> THEN NoWrite ELSE written[Len(written)]

\* C11: a take returns the value of the most recent write to the slot that
\* no take has consumed (None when there is none) and leaves the slot empty;
\* so after set(a), set(b) a take returns b and the next take returns None.
C11_TakeReturnsLatestWrite ==
  [][\A a \in Agents :
       /\ pending_take_read(a) => takes' = Append(takes, LatestUnconsumed)
       /\ pending_take_clear(a) => (pending' = NoWrite /\ written' = <<>>)
       /\ (pending_take_read(a) /\ takes # <<>> /\ nwrites = takes[Len(takes)].id)
            => takes'[Len(takes')] = NoWrite]_vars

\* C11 witness: after two writes a take returned the second one, and the
\* take after it returned None.
C11_Witness ==
  /\ nwrites = 2
  /\ Len(takes) = 2
  /\ takes[1].id = 2
  /\ takes[2] = NoWrite

\* C12: no two takes return the value of the same write, and the slot holds
\* None or one value.
C12_EachWriteTakenOnce ==
  /\ \A i, j \in DOMAIN takes :
       (i # j /\ takes[i] # NoWrite) => takes[i].id # takes[j].id
  /\ pending \in {NoWrite} \cup {Write(p, n) : p \in PendingPaths, n \in 1..nwrites}

\* C12 witness: one take has moved a value out of the slot and still holds
\* the Mutex while another take waits for it.
C12_Witness ==
  \E a, b \in Agents :
    /\ pcall[a].op = "take" /\ ppc[a] = "clear"
    /\ takes[Len(takes)] # NoWrite
    /\ pcall[b].op = "take" /\ ppc[b] = "lock"

\* The order in which a call that writes the slot goes through its
\* statements: set_pending_file emits before its guard is dropped,
\* on_open_url after.
WriteOrder(op) ==
  IF op = "set"
  THEN {<<"lock", "store">>, <<"store", "emit">>, <<"emit", "unlock">>, <<"unlock", "idle">>}
  ELSE {<<"lock", "store">>, <<"store", "unlock">>, <<"unlock", "emit">>, <<"emit", "idle">>}

\* C24: a write to the slot (set_pending_file, on_open_url) puts its path
\* in the slot whatever the slot held, and emits one event: it goes through
\* its store and its emit once each, the payload is its own path, and
\* set_pending_file, which reads the payload back from the slot, finds its
\* own path there and never an empty slot, also while other calls run.
C24_SetReplacesAndEmitsOwnPath ==
  [][\A a \in Agents :
       /\ pending_store(a) => pending'.path = pcall[a].path
       /\ pending_emit(a) =>
            /\ emitted' = pcall[a].path
            /\ pcall[a].op = "set" => (pending # NoWrite /\ pendingLock = a)
       /\ (pcall[a].op \in {"set", "open"} /\ ppc[a] # "idle" /\ ppc'[a] # ppc[a])
            => <<ppc[a], ppc'[a]>> \in WriteOrder(pcall[a].op)]_vars

\* C24 witness: a set_pending_file has replaced the value in the slot by
\* another path and emitted that path, and still holds the Mutex while a
\* get_pending_file waits for it.
C24_Witness ==
  \E a, b \in Agents :
    /\ pcall[a].op = "set" /\ ppc[a] = "unlock"
    /\ Len(written) = 2 /\ written[1].path # written[2].path
    /\ pending.path = pcall[a].path /\ emitted = pcall[a].path
    /\ pcall[b].op = "take" /\ ppc[b] = "lock"

\* ========================================== specification SpecFiles =====
\* read_file and write_file against a filesystem.  A path is what the two
\* commands can tell about it without its text: whether it is absolute and
\* whether its parent directory exists.  A content is a text and its length
\* in bytes; the lengths are taken around the 10 MiB limit.

\* lib.rs:269, 303  const MAX_FILE_SIZE / MAX_CONTENT_SIZE = 10 * 1024 * 1024
MAX_FILE_SIZE == 10 * 1024 * 1024
\* Texts a file or a write_file call may carry: 1..NTexts.
NTexts == 2

FilePath(absolute, parent) == [absolute |-> absolute, parent |-> parent]
\* A relative path ("notes.md"), an absolute path in an existing directory,
\* an absolute path whose parent directory does not exist.
FilePaths == {FilePath(FALSE, TRUE), FilePath(TRUE, TRUE), FilePath(TRUE, FALSE)}

Content(text, len) == [text |-> text, len |-> len]
NoContent == Content(0, 0)
Lengths == {20, MAX_FILE_SIZE, MAX_FILE_SIZE + 1}
Contents == {Content(t, n) : t \in 1..NTexts, n \in Lengths}

\* What is at a path: nothing, a directory, or a regular file with its
\* content and whether File::open succeeds on it.
NoObject == [kind |-> "none", content |-> NoContent, readable |-> FALSE]
Directory == [kind |-> "dir", content |-> NoContent, readable |-> FALSE]
RegularFile(content, readable) ==
  [kind |-> "file", content |-> content, readable |-> readable]
FsObjects ==
  {NoObject, Directory}
    \cup {RegularFile(c, r) : c \in Contents, r \in BOOLEAN}

\* The error messages of the two commands.
NotAbsolute == "File path must be absolute"
InvalidPath == "Invalid path"
NotFound == "File does not exist"
NotAFile == "Path is not a file"
Unreadable == "File is not readable"
FileTooLarge == "File is too large (max 10MB)"
ParentMissing == "Parent directory does not exist"
ContentTooLarge == "Content is too large (max 10MB)"
WriteFailed == "Failed to write file"
NoError == ""

\* Mutant of is_absolute: every path passes.
is_absolute_any(path) == TRUE
\* Path::is_absolute
is_absolute(path) == path.absolute

\* Mutant of canonicalize: succeeds where nothing exists.
canonicalize_any(obj) == TRUE
\* Path::canonicalize succeeds: every component of the path exists.
canonicalize(obj) == obj.kind # "none"

\* Mutant of exceeds_limit: no size is over the limit.
exceeds_limit_never(len) == FALSE
\* metadata_std.len() > MAX_FILE_SIZE, content.len() > MAX_CONTENT_SIZE
exceeds_limit(len) == len > MAX_FILE_SIZE

\* Mutant of exists_not_file: a target that does not exist is rejected too.
exists_not_file_strict(obj) == obj.kind # "file"
\* path.exists() && !path.is_file()
exists_not_file(obj) == obj.kind # "none" /\ obj.kind # "file"

\* Mutant of fs_write: the file is left as it was.
fs_write_nothing(obj, content) == obj
\* std::fs::write(&path, content) that succeeds: the file is created or its
\* content replaced; an existing file keeps its permissions.
fs_write(obj, content) ==
  RegularFile(content, IF obj.kind = "file" THEN obj.readable ELSE TRUE)

\* A result: Err(message) or Ok(value), with the filesystem operations the
\* call performed, in order.  wrapped: read_file puts "Path validation
\* failed: " before the message of validate_file_path.
Failed(message, wrapped, accessed) ==
  [ok |-> FALSE, error |-> message, wrapped |-> wrapped,
   value |-> NoContent, accessed |-> accessed]
Succeeded(value, accessed) ==
  [ok |-> TRUE, error |-> NoError, wrapped |-> FALSE,
   value |-> value, accessed |-> accessed]

\* validate_file_path: Err for a path that is not absolute or does not
\* canonicalize, else Ok(FileMetadata { exists, is_file, is_readable }).
validate_file_path(path, obj) ==
  IF ~is_absolute(path) THEN
    [ok |-> FALSE, error |-> NotAbsolute, accessed |-> <<>>,
     exists |-> FALSE, is_file |-> FALSE, is_readable |-> FALSE]
  ELSE IF ~canonicalize(obj) THEN
    [ok |-> FALSE, error |-> InvalidPath, accessed |-> <<"canonicalize">>,
     exists |-> FALSE, is_file |-> FALSE, is_readable |-> FALSE]
  ELSE
    [ok |-> TRUE, error |-> NoError,
     accessed |-> IF obj.kind = "file"
                  THEN <<"canonicalize", "exists", "is_file", "open">>
                  ELSE <<"canonicalize", "exists", "is_file">>,
     exists |-> obj.kind # "none",
     is_file |-> obj.kind = "file",
     is_readable |-> obj.kind = "file" /\ obj.readable]

\* The result of read_file(path) when obj is at the path.
read_result(path, obj) ==
  LET metadata == validate_file_path(path, obj) IN
  IF ~metadata.ok THEN Failed(metadata.error, TRUE, metadata.accessed)
  ELSE IF ~metadata.exists THEN Failed(NotFound, FALSE, metadata.accessed)
  ELSE IF ~metadata.is_file THEN Failed(NotAFile, FALSE, metadata.accessed)
  ELSE IF ~metadata.is_readable THEN Failed(Unreadable, FALSE, metadata.accessed)
  ELSE IF exceeds_limit(obj.content.len)
       THEN Failed(FileTooLarge, FALSE, Append(metadata.accessed, "metadata"))
  ELSE Succeeded(obj.content, metadata.accessed \o <<"metadata", "read_to_string">>)

\* Mutant of write_result: the size of the content is checked first.
write_result_size_first(path, obj, content, io) ==
  IF exceeds_limit(content.len) THEN Failed(ContentTooLarge, FALSE, <<>>)
  ELSE IF ~is_absolute(path) THEN Failed(NotAbsolute, FALSE, <<>>)
  ELSE IF exists_not_file(obj) THEN Failed(NotAFile, FALSE, <<"exists", "is_file">>)
  ELSE IF ~path.parent
       THEN Failed(ParentMissing, FALSE, <<"exists", "parent_exists">>)
  ELSE IF io = "ok"
       THEN Succeeded(NoContent, <<"exists", "parent_exists", "write">>)
  ELSE Failed(WriteFailed, FALSE, <<"exists", "parent_exists", "write">>)

\* The result of write_file(path, content) when obj is at the path and
\* std::fs::write ends with outcome io.
write_result(path, obj, content, io) ==
  IF ~is_absolute(path) THEN Failed(NotAbsolute, FALSE, <<>>)
  ELSE IF exists_not_file(obj) THEN Failed(NotAFile, FALSE, <<"exists", "is_file">>)
  ELSE IF ~path.parent
       THEN Failed(ParentMissing, FALSE, <<"exists", "parent_exists">>)
  ELSE IF exceeds_limit(content.len)
       THEN Failed(ContentTooLarge, FALSE, <<"exists", "parent_exists">>)
  ELSE IF io = "ok"
       THEN Succeeded(NoContent, <<"exists", "parent_exists", "write">>)
  ELSE Failed(WriteFailed, FALSE, <<"exists", "parent_exists", "write">>)

\* The record of a call: the command, its arguments, what was at the path
\* when it began, and its result.
Call(cmd, path, content, before, res) ==
  [cmd |-> cmd, path |-> path, content |-> content, before |-> before, res |-> res]

\* The command read_file.
read_file(path) ==
  /\ result' = Call("read", path, NoContent, objects[path], read_result(path, objects[path]))
  /\ UNCHANGED <<objects, lastWritten>>
  /\ UNCHANGED <<recentFiles, slot, printing>>

\* The command write_file.
write_file(path, content, io) ==
  LET res == write_result(path, objects[path], content, io) IN
  /\ result' = Call("write", path, content, objects[path], res)
  /\ objects' = IF res.ok
                THEN [objects EXCEPT ![path] = fs_write(objects[path], content)]
                ELSE objects
  /\ lastWritten' = IF res.ok THEN [lastWritten EXCEPT ![path] = content]
                    ELSE lastWritten
  /\ UNCHANGED <<recentFiles, slot, printing>>

InitFiles ==
  /\ RegistryIdle
  /\ SlotIdle
  /\ PrintIdle
  /\ objects \in [FilePaths -> FsObjects]
  /\ \A path \in FilePaths : ~path.parent => objects[path] = NoObject
  /\ result = NoResult
  /\ lastWritten = [path \in FilePaths |-> NoContent]

NextFiles ==
  \/ \E path \in FilePaths : read_file(path)
  \/ \E path \in FilePaths, content \in Contents, io \in StoreOutcomes :
       write_file(path, content, io)

SpecFiles == InitFiles /\ [][NextFiles]_vars

\* --------------------------------------------- claims under SpecFiles ----
\* The last call was read_file, write_file.
WasRead == result.cmd = "read"
WasWrite == result.cmd = "write"
\* The filesystem operations the last call performed.
Performed == {result.res.accessed[k] : k \in DOMAIN result.res.accessed}

\* C13: read_file and write_file of a path that is not absolute fail with
\* the message "File path must be absolute" and perform no filesystem
\* operation.
C13_RelativePathRejectedFirst ==
  ((WasRead \/ WasWrite) /\ ~result.path.absolute) =>
    /\ ~result.res.ok
    /\ result.res.error = NotAbsolute
    /\ result.res.accessed = <<>>

\* C13 witness: read_file was called with a relative path at which a
\* readable file of 20 bytes exists.
C13_Witness ==
  /\ WasRead /\ ~result.path.absolute
  /\ result.before.kind = "file" /\ result.before.readable
  /\ result.before.content.len = 20

\* C14 (as claimed): read_file of a file over 10 MiB fails with the
\* size-limit error and does not read it; write_file of a content over
\* 10 MiB fails with the size-limit error and does not write.
C14_OversizeGivesSizeError ==
  /\ (WasRead /\ result.before.kind = "file"
        /\ result.before.content.len > MAX_FILE_SIZE) =>
       /\ ~result.res.ok
       /\ result.res.error = FileTooLarge
       /\ "read_to_string" \notin Performed
  /\ (WasWrite /\ result.content.len > MAX_FILE_SIZE) =>
       /\ ~result.res.ok
       /\ result.res.error = ContentTooLarge
       /\ "write" \notin Performed

\* C14 (amended): read_file of a file over 10 MiB fails and does not read
\* it, write_file of a content over 10 MiB fails, does not write and leaves
\* the object at the path as it was; the error is the size-limit error when
\* the checks made before the size check pass (read: the path is absolute
\* and the file is readable; write: the path is absolute, the target is not
\* a directory and the parent directory exists), else it is the error of
\* the first check that fails.
C14_OversizeNeverReadOrWritten ==
  /\ (WasRead /\ result.before.kind = "file"
        /\ result.before.content.len > MAX_FILE_SIZE) =>
       /\ ~result.res.ok
       /\ "read_to_string" \notin Performed
       /\ result.res.error =
            (IF ~result.path.absolute THEN NotAbsolute
             ELSE IF ~result.before.readable THEN Unreadable
             ELSE FileTooLarge)
  /\ (WasWrite /\ result.content.len > MAX_FILE_SIZE) =>
       /\ ~result.res.ok
       /\ "write" \notin Performed
       /\ objects[result.path] = result.before
       /\ result.res.error =
            (IF ~result.path.absolute THEN NotAbsolute
             ELSE IF result.before.kind = "dir" THEN NotAFile
             ELSE IF ~result.path.parent THEN ParentMissing
             ELSE ContentTooLarge)

\* C14 witness: read_file of a readable file of 10 MiB + 1 bytes at an
\* absolute path was refused with the size-limit error.
C14_Witness ==
  /\ WasRead /\ result.path.absolute
  /\ result.before.kind = "file" /\ result.before.readable
  /\ result.before.content.len = MAX_FILE_SIZE + 1
  /\ result.res.error = FileTooLarge

\* C15 (as claimed): read_file of a path that a successful write_file wrote
\* last returns the content written.
C15_ReadReturnsWritten ==
  [][\A path \in FilePaths :
       (lastWritten[path] # NoContent /\ read_file(path)) =>
         /\ result'.res.ok
         /\ result'.res.value = lastWritten[path]]_vars

\* C15 (amended): read_file of a path that a successful write_file wrote
\* last returns the content written, provided the file can be opened for
\* reading (a file the write created can; a file that was there keeps its
\* permissions); if it cannot, read_file fails with "File is not readable".
C15_ReadReturnsWrittenIfReadable ==
  [][\A path \in FilePaths :
       (lastWritten[path] # NoContent /\ read_file(path)) =>
         /\ objects[path].kind = "file"
         /\ objects[path].content = lastWritten[path]
         /\ objects[path].readable =>
              (result'.res.ok /\ result'.res.value = lastWritten[path])
         /\ ~objects[path].readable =>
              (~result'.res.ok /\ result'.res.error = Unreadable)]_vars

\* C15 witness: read_file returned the 10 MiB content that the last
\* write_file to the path wrote.
C15_Witness ==
  /\ WasRead /\ result.res.ok
  /\ lastWritten[result.path] # NoContent
  /\ result.res.value = lastWritten[result.path]
  /\ result.res.value.len = MAX_FILE_SIZE

\* C16 (as claimed): write_file of a content of at most 10 MiB to an
\* absolute path at which nothing exists and whose parent directory exists
\* succeeds, and the file then exists with that content.
C16_NewFileWriteSucceeds ==
  [][\A path \in FilePaths, content \in Contents, io \in StoreOutcomes :
       (/\ path.absolute /\ path.parent
        /\ objects[path] = NoObject
        /\ content.len <= MAX_FILE_SIZE
        /\ write_file(path, content, io)) =>
         /\ result'.res.ok
         /\ objects'[path].kind = "file"
         /\ objects'[path].content = content]_vars

\* C16 (amended): for such a path and content no check of write_file
\* rejects the call: std::fs::write is performed; when it succeeds the
\* call succeeds and the file exists with the content, when it fails the
\* call fails with "Failed to write file" and nothing is at the path.
C16_NewFileNeverRejected ==
  [][\A path \in FilePaths, content \in Contents, io \in StoreOutcomes :
       (/\ path.absolute /\ path.parent
        /\ objects[path] = NoObject
        /\ content.len <= MAX_FILE_SIZE
        /\ write_file(path, content, io)) =>
         /\ result'.res.accessed[Len(result'.res.accessed)] = "write"
         /\ io = "ok" =>
              /\ result'.res.ok
              /\ objects'[path].kind = "file"
              /\ objects'[path].content = content
         /\ io # "ok" =>
              /\ result'.res.error = WriteFailed
              /\ objects'[path] = NoObject]_vars

\* C16 witness: write_file created a file of 10 MiB at an absolute path at
\* which nothing existed.
C16_Witness ==
  /\ WasWrite /\ result.res.ok
  /\ result.path.absolute
  /\ result.before = NoObject
  /\ objects[result.path].kind = "file"
  /\ objects[result.path].content = result.content
  /\ result.content.len = MAX_FILE_SIZE

\* C17 (as claimed): read_file of an absolute path at which nothing exists
\* fails with "File does not exist" and returns no content.
C17_MissingFileNotFound ==
  (WasRead /\ result.path.absolute /\ result.before = NoObject) =>
    /\ ~result.res.ok
    /\ result.res.error = NotFound
    /\ result.res.value = NoContent

\* C17 (amended): read_file of an absolute path at which nothing exists
\* fails in validate_file_path, with "Path validation failed: Invalid
\* path: ..." (the path does not canonicalize), and returns no content.
C17_MissingFileInvalidPath ==
  (WasRead /\ result.path.absolute /\ result.before = NoObject) =>
    /\ ~result.res.ok
    /\ result.res.error = InvalidPath
    /\ result.res.wrapped
    /\ result.res.value = NoContent
    /\ result.res.accessed = <<"canonicalize">>

\* C17 witness: read_file was called on an absolute path in an existing
\* directory at which nothing exists.
C17_Witness ==
  /\ WasRead /\ result.path.absolute /\ result.path.parent
  /\ result.before = NoObject
  /\ ~result.res.ok

\* The checks of write_file that the last call, a write_file, fails, in the
\* order NotAbsolute, NotAFile, ParentMissing, TooLarge.
FailingChecks ==
  SelectSeq(<<NotAbsolute, NotAFile, ParentMissing, ContentTooLarge>>,
            LAMBDA e :
              \/ e = NotAbsolute /\ ~result.path.absolute
              \/ e = NotAFile /\ result.before.kind = "dir"
              \/ e = ParentMissing /\ ~result.path.parent
              \/ e = ContentTooLarge /\ result.content.len > MAX_FILE_SIZE)

\* C25: a write_file call that fails one or more of its checks returns the
\* error of the first of them in the order NotAbsolute, NotAFile,
\* ParentMissing, TooLarge, and a call that fails a check leaves every file
\* as it was.
C25_WriteChecksInOrder ==
  /\ [](WasWrite /\ FailingChecks # <<>> =>
          /\ ~result.res.ok
          /\ result.res.error = Head(FailingChecks)
          /\ "write" \notin Performed)
  /\ [][(result'.cmd = "write" /\ ~result'.res.ok) => objects' = objects]_vars

\* C25 witness: write_file was called with a relative path at which a
\* directory is and a content over the limit: three checks fail, and the
\* error is that of the first.
C25_Witness ==
  /\ WasWrite
  /\ Len(FailingChecks) = 3
  /\ result.res.error = NotAbsolute
  /\ objects[result.path] = Directory

\* ========================================== specification SpecPrint =====
\* print_markdown and the thread it spawns, statement by statement, for
\* print requests that the runtime may run at once, with close_print_window.
\* A file of the print directory is its name (sanitized title, timestamp)
\* and its time of modification; a window is its label (the timestamp).

\* Print requests in one behaviour.
NJobs == 2
\* Most .html files in the print directory before the first request.
MaxOld == 11
\* The seconds the system clock goes through: 1..MaxSeconds.
MaxSeconds == 2
\* print.rs:49  while files.len() >= 10
KEEP_LIMIT == 10

Jobs == 1..NJobs
\* Titles of one character: a letter, a space, an underscore.
Titles == {<<"a">>, <<" ">>, <<"_">>}
\* The sizes the print directory may have before the first request.
OldCounts == {0} \cup ((KEEP_LIMIT - 1)..MaxOld)

\* title.replace(|c| !c.is_alphanumeric() && c != ' ', "_").replace(' ', "_")
safe_title(title) ==
  [k \in DOMAIN title |-> IF title[k] = "a" THEN "a" ELSE "_"]

\* format!("{}_{}.html", safe_title, timestamp)
FileName(title, stamp) == [title |-> safe_title(title), stamp |-> stamp]
NoName == [title |-> <<>>, stamp |-> 0]
\* A file left by an earlier run: the i-th oldest.
OldFile(i) == [name |-> [title |-> <<"o">>, stamp |-> i], mtime |-> i]
PrintFile(name, mtime) == [name |-> name, mtime |-> mtime]

Names(dir) == {f.name : f \in dir}

RECURSIVE sort_by_modified(_)
\* files.sort_by(modified): the files of dir, oldest first.
sort_by_modified(dir) ==
  IF dir = {} THEN <<>>
  ELSE LET oldest == CHOOSE f \in dir : \A g \in dir : f.mtime <= g.mtime
       IN <<oldest>> \o sort_by_modified(dir \ {oldest})

\* The states of a print request.
Created == "Created"
Rendering == "Rendering"
PrintTriggered == "PrintTriggered"
AwaitingDismissal == "AwaitingDismissal"
Closed == "Closed"
Lifecycle == <<Created, Rendering, PrintTriggered, AwaitingDismissal, Closed>>

\* A print request: its title, the Vec files (listing), what it found and
\* removed, its file name and label (stamp), and the record of its course.
NoJob ==
  [title |-> <<>>, listing |-> <<>>, read_dir |-> "none", seen |-> 0,
   removed |-> <<>>,
   alone |-> TRUE, name |-> NoName,
   states |-> <<>>, printed |-> "none", closing |-> "none", error |-> NoError]

\* The requests that have listed the directory and not yet written.
Between == {k \in DOMAIN jpc : jpc[k] \in {"evict", "write"}}
\* job after request j changed the print directory: the others that are
\* between their listing and their write did not run alone.
Disturbed(jobs, j) ==
  [k \in DOMAIN jobs |->
     IF tracking /\ k # j /\ k \in Between THEN [jobs[k] EXCEPT !.alone = FALSE] ELSE jobs[k]]

\* The front end invokes print_markdown(title, html_content); the requests
\* are numbered in the order in which they are issued.
print_markdown(j, title) ==
  /\ jpc[j] = "idle"
  /\ \A k \in Jobs : k < j => jpc[k] # "idle"
  /\ job' = [job EXCEPT ![j] = [NoJob EXCEPT !.title = title]]
  /\ jpc' = [jpc EXCEPT ![j] = "mkdir"]
  /\ UNCHANGED <<printDir, printDirExists, mclock, now, windows>>
  /\ UNCHANGED <<recentFiles, slot, fileio>>

\* if !print_dir.exists() { fs::create_dir_all(&print_dir)? }
print_create_dir(j, io) ==
  /\ jpc[j] = "mkdir"
  /\ printDirExists => io = "ok"
  /\ printDirExists' = (printDirExists \/ io = "ok")
  /\ jpc' = [jpc EXCEPT ![j] = IF io = "ok" THEN "list" ELSE "failed"]
  /\ job' = [job EXCEPT ![j].error =
               IF io = "ok" THEN NoError ELSE "Failed to create print directory"]
  /\ UNCHANGED <<printDir, mclock, now, windows>>
  /\ UNCHANGED <<recentFiles, slot, fileio>>

\* if let Ok(entries) = fs::read_dir(&print_dir): the .html files, sorted
\* oldest first; when read_dir fails the cleanup is skipped.
print_list(j, io) ==
  /\ jpc[j] = "list"
  /\ job' = [job EXCEPT ![j].listing = IF io = "ok" THEN sort_by_modified(printDir) ELSE <<>>,
                        ![j].seen = IF tracking /\ io = "ok"
                                    THEN Cardinality(printDir) ELSE 0,
                        ![j].read_dir = IF tracking THEN io ELSE "none"]
  /\ jpc' = [jpc EXCEPT ![j] = "evict"]
  /\ UNCHANGED <<printDir, printDirExists, mclock, now, windows>>
  /\ UNCHANGED <<recentFiles, slot, fileio>>

\* Mutant of print_evict: the newest listed file is removed.
print_evict_newest(j) ==
  /\ jpc[j] = "evict"
  /\ Len(job[j].listing) >= KEEP_LIMIT
  /\ LET n == Len(job[j].listing)
         newest == job[j].listing[n]
     IN /\ printDir' = printDir \ {newest}
        /\ job' = [Disturbed(job, j) EXCEPT
                     ![j].listing = SubSeq(job[j].listing, 1, n - 1),
                     ![j].removed = IF tracking THEN Append(job[j].removed, newest)
                                    ELSE <<>>]
  /\ UNCHANGED <<printDirExists, mclock, now, jpc, windows>>
  /\ UNCHANGED <<recentFiles, slot, fileio>>

\* One turn of while files.len() >= 10: let _ = fs::remove_file(first);
\* files.remove(0).  A file that is no longer there makes remove_file fail,
\* which is ignored.
print_evict(j) ==
  /\ jpc[j] = "evict"
  /\ Len(job[j].listing) >= KEEP_LIMIT
  /\ LET oldest == Head(job[j].listing)
     IN /\ printDir' = printDir \ {oldest}
        /\ job' = [(IF oldest \in printDir THEN Disturbed(job, j) ELSE job) EXCEPT
                     ![j].listing = Tail(job[j].listing),
                     ![j].removed = IF tracking THEN Append(job[j].removed, oldest)
                                    ELSE <<>>]
  /\ UNCHANGED <<printDirExists, mclock, now, jpc, windows>>
  /\ UNCHANGED <<recentFiles, slot, fileio>>

\* The loop is left and the Vec files dropped; timestamp = now().as_secs(),
\* filename and window label are made of it.
print_name(j) ==
  /\ jpc[j] = "evict"
  /\ Len(job[j].listing) < KEEP_LIMIT
  /\ job' = [job EXCEPT ![j].name = FileName(job[j].title, now),
                        ![j].listing = <<>>]
  /\ jpc' = [jpc EXCEPT ![j] = "write"]
  /\ UNCHANGED <<printDir, printDirExists, mclock, now, windows>>
  /\ UNCHANGED <<recentFiles, slot, fileio>>

\* fs::write(&file_path, &full_html)?: the file is created, or the file of
\* that name replaced.
print_write(j, io) ==
  /\ jpc[j] = "write"
  /\ IF io = "ok"
     THEN /\ printDir' = {f \in printDir : f.name # job[j].name}
                           \cup {PrintFile(job[j].name, mclock)}
          /\ mclock' = mclock + 1
          /\ job' = [Disturbed(job, j) EXCEPT ![j].states = <<Created>>]
          /\ jpc' = [jpc EXCEPT ![j] = "window"]
     ELSE /\ job' = [job EXCEPT ![j].error = "Failed to write print file"]
          /\ jpc' = [jpc EXCEPT ![j] = "failed"]
          /\ UNCHANGED <<printDir, mclock>>
  /\ UNCHANGED <<printDirExists, now, windows>>
  /\ UNCHANGED <<recentFiles, slot, fileio>>

\* A window is known by the request that built it (the handle its thread
\* holds); its label is that request's timestamp.
\* The open windows of the label, and the labels of the open windows.
Labelled(label) == {k \in windows : job[k].name.stamp = label}
Labels == {job[k].name.stamp : k \in windows}

\* WebviewWindowBuilder::new(&app, &window_label, ..).build()?: fails when a
\* window of that label is open, or for a reason of the window system (io);
\* then std::thread::spawn and Ok(()).
print_window(j, io) ==
  /\ jpc[j] = "window"
  /\ IF io = "ok" /\ job[j].name.stamp \notin Labels
     THEN /\ windows' = windows \cup {j}
          /\ job' = [job EXCEPT ![j].states = Append(job[j].states, Rendering)]
          /\ jpc' = [jpc EXCEPT ![j] = "render"]
     ELSE /\ job' = [job EXCEPT ![j].error = "Failed to create print window"]
          /\ jpc' = [jpc EXCEPT ![j] = "failed"]
          /\ UNCHANGED windows
  /\ UNCHANGED <<printDir, printDirExists, mclock, now>>
  /\ UNCHANGED <<recentFiles, slot, fileio>>

\* The thread, after sleep(2500 ms): window_clone.print(), whose error is
\* only logged.
thread_print(j, io) ==
  /\ jpc[j] = "render"
  /\ job' = [job EXCEPT ![j].states = Append(job[j].states, PrintTriggered),
                        ![j].printed = io]
  /\ jpc' = [jpc EXCEPT ![j] = "printed"]
  /\ UNCHANGED <<printDir, printDirExists, mclock, now, windows>>
  /\ UNCHANGED <<recentFiles, slot, fileio>>

\* The thread goes into sleep(300 s).
thread_await(j) ==
  /\ jpc[j] = "printed"
  /\ job' = [job EXCEPT ![j].states = Append(job[j].states, AwaitingDismissal)]
  /\ jpc' = [jpc EXCEPT ![j] = "dismiss"]
  /\ UNCHANGED <<printDir, printDirExists, mclock, now, windows>>
  /\ UNCHANGED <<recentFiles, slot, fileio>>

\* Mutant of thread_close: the window is closed only after a print() that
\* succeeded.
thread_close_if_printed(j) ==
  /\ jpc[j] = "dismiss"
  /\ job[j].printed = "ok"
  /\ windows' = windows \ {j}
  /\ job' = [job EXCEPT ![j].states = Append(job[j].states, Closed),
                        ![j].closing = IF j \in windows THEN "ok" ELSE "failed"]
  /\ jpc' = [jpc EXCEPT ![j] = "closed"]
  /\ UNCHANGED <<printDir, printDirExists, mclock, now>>
  /\ UNCHANGED <<recentFiles, slot, fileio>>

\* Mutant of thread_close: the thread closes the open window of its label,
\* whichever request built it.
thread_close_by_label(j) ==
  /\ jpc[j] = "dismiss"
  /\ windows' = (windows \ {j}) \ Labelled(job[j].name.stamp)
  /\ job' = [job EXCEPT ![j].states = Append(job[j].states, Closed),
                        ![j].closing = IF j \in windows THEN "ok" ELSE "failed"]
  /\ jpc' = [jpc EXCEPT ![j] = "closed"]
  /\ UNCHANGED <<printDir, printDirExists, mclock, now>>
  /\ UNCHANGED <<recentFiles, slot, fileio>>

\* The thread, after sleep(300 s): window_clone.close(), whose error (the
\* window is closed already) is only logged; the thread ends.
thread_close(j) ==
  /\ jpc[j] = "dismiss"
  /\ windows' = windows \ {j}
  /\ job' = [job EXCEPT ![j].states = Append(job[j].states, Closed),
                        ![j].closing = IF j \in windows THEN "ok" ELSE "failed"]
  /\ jpc' = [jpc EXCEPT ![j] = "closed"]
  /\ UNCHANGED <<printDir, printDirExists, mclock, now>>
  /\ UNCHANGED <<recentFiles, slot, fileio>>

\* What close_print_window(label) returns: Ok(()) when no window has the
\* label or window.close() succeeds, else the error of window.close().
close_return(label, io) ==
  IF label \in Labels /\ io # "ok" THEN "Failed to close window" ELSE "Ok"

\* Mutant of close_print_window: every open window is closed.
close_print_window_all(label, io) ==
  /\ label \notin Labels => io = "ok"
  /\ windows' = IF close_return(label, io) = "Ok" /\ label \in Labels THEN {} ELSE windows
  /\ UNCHANGED <<printDir, printDirExists, mclock, now, jpc, job>>
  /\ UNCHANGED <<recentFiles, slot, fileio>>

\* The command close_print_window(label): the window of that label, if
\* there is one, is closed with window.close(), which goes as io; nothing
\* else changes.
close_print_window(label, io) ==
  /\ label \notin Labels => io = "ok"
  /\ windows' = IF close_return(label, io) = "Ok" THEN windows \ Labelled(label) ELSE windows
  /\ UNCHANGED <<printDir, printDirExists, mclock, now, jpc, job>>
  /\ UNCHANGED <<recentFiles, slot, fileio>>

\* A second passes.
Tick ==
  /\ now < MaxSeconds
  /\ now' = now + 1
  /\ UNCHANGED <<printDir, printDirExists, mclock, jpc, job, windows>>
  /\ UNCHANGED <<recentFiles, slot, fileio>>

\* The print directory left by earlier runs, absent or holding n files for
\* an n of counts, and no request yet; record: whether what the requests
\* find and remove is recorded.
PrintStart(counts, record) ==
  /\ RegistryQuiet
  /\ tracking = record
  /\ SlotIdle
  /\ FilesIdle
  /\ \E n \in counts :
       /\ printDir = {OldFile(i) : i \in 1..n}
       /\ mclock = n + 1
       /\ printDirExists \in (IF n = 0 THEN BOOLEAN ELSE {TRUE})
  /\ now = 1
  /\ jpc = [j \in Jobs |-> "idle"]
  /\ job = [j \in Jobs |-> NoJob]
  /\ windows = {}

\* The statements of print_markdown up to the write of the file: all that
\* ever changes the print directory.
DirectorySteps ==
  \/ \E j \in Jobs, title \in Titles : print_markdown(j, title)
  \/ \E j \in Jobs, io \in StoreOutcomes : print_create_dir(j, io)
  \/ \E j \in Jobs, io \in StoreOutcomes : print_list(j, io)
  \/ \E j \in Jobs : print_evict(j)
  \/ \E j \in Jobs : print_name(j)
  \/ \E j \in Jobs, io \in StoreOutcomes : print_write(j, io)

\* The window, the thread, close_print_window, and the clock.
WindowSteps ==
  \/ \E j \in Jobs, io \in StoreOutcomes : print_window(j, io)
  \/ \E j \in Jobs, io \in StoreOutcomes : thread_print(j, io)
  \/ \E j \in Jobs : thread_await(j)
  \/ \E j \in Jobs : thread_close(j)
  \/ \E label \in 1..MaxSeconds, io \in StoreOutcomes : close_print_window(label, io)
  \/ Tick

\* The print requests from an absent, empty or full print directory.
InitPrint == PrintStart({0, KEEP_LIMIT}, FALSE)
NextPrint == DirectorySteps \/ WindowSteps
SpecPrint == InitPrint /\ [][NextPrint]_vars

\* The next step of the thread of request j.
thread_step(j) ==
  \/ \E io \in StoreOutcomes : thread_print(j, io)
  \/ thread_await(j)
  \/ thread_close(j)

\* A thread that can take its next step takes it: a sleep ends, print() and
\* close() return.
ThreadsRun == \A j \in Jobs : WF_vars(thread_step(j))
SpecPrintFair == SpecPrint /\ ThreadsRun

\* ------------------------------------- specification SpecPrintDir -------
\* The print directory under print requests, from directories of up to
\* MaxOld files, all within one second.  The window and thread steps, which
\* leave the directory alone, are not taken: a request stays where its file
\* is written.
InitPrintDir == PrintStart(OldCounts, TRUE)
SpecPrintDir == InitPrintDir /\ [][DirectorySteps]_vars

\* ------------------------------------------ claims under SpecPrintDir ----
\* The requests whose file has been written.
Written == {j \in DOMAIN job : job[j].states # <<>>}

\* The requests that have written their file could all read the directory.
AllListed == \A j \in Written : job[j].read_dir = "ok"

\* C18 (as claimed): once print requests that could read the directory have
\* written their files and no request is between its listing and its write,
\* the print directory holds at most 10 files, also when requests
\* overlapped.  Two requests that list the directory before either writes
\* both keep what they saw and both add a file, so it does not hold.
C18_AtMostTenPrintFiles ==
  (Written # {} /\ Between = {} /\ AllListed) =>
    Cardinality(printDir) <= KEEP_LIMIT

\* The same for requests that ran one at a time: holds.
AtMostTenWhenAlone ==
  (Written # {} /\ Between = {} /\ AllListed /\ \A j \in Written : job[j].alone) =>
    Cardinality(printDir) <= KEEP_LIMIT

\* Every turn of the eviction loop of request j removes a file older than
\* all that stay in its listing and than none it removed before.
EvictsOldestFirst(j) ==
  print_evict(j) =>
    LET gone == job'[j].removed[Len(job'[j].removed)] IN
    /\ \A k \in DOMAIN job'[j].listing : gone.mtime < job'[j].listing[k].mtime
    /\ \A k \in DOMAIN job[j].removed : job[j].removed[k].mtime < gone.mtime
    /\ gone \notin printDir'

\* What the claim says of the write of a request that found 10 files.
TenRemain(j) ==
  /\ Cardinality(printDir') = KEEP_LIMIT
  /\ Len(job[j].removed) = 1
  /\ job[j].name \in Names(printDir')

IsPrefix(s, t) == Len(s) <= Len(t) /\ s = SubSeq(t, 1, Len(s))

\* C20: the states a print request goes through are, in this order and
\* each once, Created, Rendering, PrintTriggered, AwaitingDismissal, Closed;
\* and a request whose window was created reaches Closed, also when print()
\* failed.
C20_LifecycleInOrder ==
  /\ [](\A j \in Jobs : IsPrefix(job[j].states, Lifecycle))
  /\ \A j \in Jobs :
       (Len(job[j].states) >= 2) ~> (job[j].states = Lifecycle)

\* C20 witness: a request went through the five states and reached Closed
\* although its print() failed.
C20_Witness ==
  \E j \in Jobs :
    /\ job[j].states = Lifecycle
    /\ job[j].printed = "failed"
    /\ jpc[j] = "closed"

\* ======================================== specification SpecWindows =====
\* Print requests whose command body, from the call to the spawn of the
\* thread, runs as one step; the threads, close_print_window and the clock
\* run beside them.

\* How a run of print_markdown's body can go: every statement succeeds, or
\* create_dir_all, read_dir, fs::write, the parse of the file URL or the
\* build of the window fails.
RequestOutcomes == {"ok", "no_dir", "no_list", "no_write", "invalid_url", "no_window"}

\* What the cleanup loop leaves of dir: while files.len() >= 10 the oldest
\* listed file is removed.
kept(dir) ==
  LET files == sort_by_modified(dir)
      n == Len(files)
  IN IF n >= KEEP_LIMIT THEN {files[k] : k \in (n - KEEP_LIMIT + 2)..n} ELSE dir

\* The print directory after fs::write of the file name at time mtime.
written_to(dir, name, mtime) ==
  {f \in dir : f.name # name} \cup {PrintFile(name, mtime)}

\* The error print_markdown returns in a run that goes as io, NoError if
\* it returns Ok(()).
request_error(io, label) ==
  IF io = "no_dir" THEN "Failed to create print directory"
  ELSE IF io = "no_write" THEN "Failed to write print file"
  ELSE IF io = "invalid_url" THEN "Invalid URL"
  ELSE IF io = "no_window" \/ label \in Labels THEN "Failed to create print window"
  ELSE NoError

\* Mutant of print_request: a request that fails after its file was written
\* removes the file.
print_request_tidy(j, title, io) ==
  LET name == FileName(title, now)
      error == request_error(io, name.stamp)
      cleaned == IF io = "no_list" THEN printDir ELSE kept(printDir)
      reached == IF io = "no_dir" THEN "mkdir"
                 ELSE IF io = "no_write" THEN "write"
                 ELSE IF error # NoError THEN "window" ELSE "spawn"
  IN /\ jpc[j] = "idle"
     /\ \A k \in Jobs : k < j => jpc[k] # "idle"
     /\ io = "no_dir" => ~printDirExists
     /\ printDirExists' = (printDirExists \/ reached # "mkdir")
     /\ printDir' = IF reached = "mkdir" THEN printDir
                    ELSE IF reached \in {"write", "window"} THEN cleaned
                    ELSE written_to(cleaned, name, mclock)
     /\ mclock' = IF reached \in {"window", "spawn"} THEN mclock + 1 ELSE mclock
     /\ windows' = IF reached = "spawn" THEN windows \cup {j} ELSE windows
     /\ jpc' = [jpc EXCEPT ![j] = IF reached = "spawn" THEN "render" ELSE "failed"]
     /\ job' = [job EXCEPT ![j] =
                  [NoJob EXCEPT
                  !.name = IF reached = "mkdir" THEN NoName ELSE name,
                  !.states = IF reached = "spawn" THEN <<Created, Rendering>>
                             ELSE IF reached = "window" THEN <<Created>>
                             ELSE <<>>,
                  !.error = error]]
     /\ UNCHANGED now
     /\ UNCHANGED <<recentFiles, slot, fileio>>

\* print_markdown(title, html_content) up to its return: the directory is
\* created if it is absent, the old files are cleaned up, the file is
\* written, the window is built and the thread spawned; a failing statement
\* returns the error and leaves what was done before it.
print_request(j, title, io) ==
  LET name == FileName(title, now)
      error == request_error(io, name.stamp)
      cleaned == IF io = "no_list" THEN printDir ELSE kept(printDir)
      reached == IF io = "no_dir" THEN "mkdir"
                 ELSE IF io = "no_write" THEN "write"
                 ELSE IF error # NoError THEN "window" ELSE "spawn"
  IN /\ jpc[j] = "idle"
     /\ \A k \in Jobs : k < j => jpc[k] # "idle"
     /\ io = "no_dir" => ~printDirExists
     /\ printDirExists' = (printDirExists \/ reached # "mkdir")
     /\ printDir' = IF reached = "mkdir" THEN printDir
                    ELSE IF reached = "write" THEN cleaned
                    ELSE written_to(cleaned, name, mclock)
     /\ mclock' = IF reached \in {"window", "spawn"} THEN mclock + 1 ELSE mclock
     /\ windows' = IF reached = "spawn" THEN windows \cup {j} ELSE windows
     /\ jpc' = [jpc EXCEPT ![j] = IF reached = "spawn" THEN "render" ELSE "failed"]
     /\ job' = [job EXCEPT ![j] =
                  [NoJob EXCEPT
                  !.name = IF reached = "mkdir" THEN NoName ELSE name,
                  !.states = IF reached = "spawn" THEN <<Created, Rendering>>
                             ELSE IF reached = "window" THEN <<Created>>
                             ELSE <<>>,
                  !.error = error]]
     /\ UNCHANGED now
     /\ UNCHANGED <<recentFiles, slot, fileio>>

InitWindows == PrintStart({0}, FALSE)
NextWindows ==
  \/ \E j \in Jobs, title \in Titles, io \in RequestOutcomes : print_request(j, title, io)
  \/ \E j \in Jobs, io \in StoreOutcomes : thread_print(j, io)
  \/ \E j \in Jobs : thread_await(j)
  \/ \E j \in Jobs : thread_close(j)
  \/ \E label \in 1..MaxSeconds, io \in StoreOutcomes : close_print_window(label, io)
  \/ Tick
SpecWindows == InitWindows /\ [][NextWindows]_vars

\* -------------------------------------------- claims under SpecWindows ----
\* The outcomes in which a statement of print_markdown that the request
\* needs fails.
RequestFailures == {"no_dir", "no_write", "invalid_url", "no_window"}

\* The file request j wrote is in the print directory.
FileKept(j) == job[j].name \in Names(printDir)

\* C21: a print request in which create_dir_all, fs::write, the parse of the
\* file URL or the build of the window fails returns an error; it opens no
\* window and spawns no thread (it never goes on to Rendering and takes no
\* further step), and the file it had written is still in the print
\* directory when it returns.
C21_FailedRequestStartsNothing ==
  /\ [][\A j \in Jobs, title \in Titles, io \in RequestFailures :
          print_request(j, title, io) =>
            /\ jpc'[j] = "failed"
            /\ job'[j].error # NoError
            /\ windows' = windows
            /\ job'[j].states \in {<<>>, <<Created>>}
            /\ (job'[j].states = <<Created>>) =>
                 PrintFile(job'[j].name, mclock) \in printDir']_vars
  /\ [][\A j \in Jobs : jpc[j] = "failed" => (jpc'[j] = "failed" /\ job'[j] = job[j])]_vars
  /\ [](\A j \in Jobs : jpc[j] = "failed" =>
          /\ job[j].printed = "none"
          /\ job[j].closing = "none")

\* C21 witness: a request wrote its file and failed to build its window; the
\* file is in the print directory and no window is open.
C21_Witness ==
  \E j \in Jobs :
    /\ jpc[j] = "failed"
    /\ job[j].states = <<Created>>
    /\ job[j].error = "Failed to create print window"
    /\ FileKept(j)
    /\ windows = {}

\* The requests whose thread has not yet called window.close().
Waiting == {j \in Jobs : jpc[j] \in {"render", "printed", "dismiss"}}

\* C22: close_print_window(label) returns Ok and changes nothing when no
\* open window has the label; when one has it and window.close() succeeds,
\* that window is closed; in every case no other window is closed and no
\* print request and no file changes.
C22_CloseOnlyThatWindow ==
  /\ [](\A label \in 1..MaxSeconds, io \in StoreOutcomes :
          label \notin Labels => close_return(label, io) = "Ok")
  /\ [][\A label \in 1..MaxSeconds, io \in StoreOutcomes :
          close_print_window(label, io) =>
            /\ label \notin Labels => windows' = windows
            /\ (label \in Labels /\ close_return(label, io) = "Ok") =>
                 label \notin {job[k].name.stamp : k \in windows'}
            /\ windows' \subseteq windows
            /\ \A k \in windows \ windows' : job[k].name.stamp = label
            /\ job' = job /\ jpc' = jpc
            /\ printDir' = printDir /\ printDirExists' = printDirExists]_vars

\* C22 witness: the window of a request whose thread has not called close()
\* is closed, while the window of another request is open.
C22_Witness ==
  \E j, k \in Waiting :
    /\ j \notin windows
    /\ k \in windows

\* C23 (as claimed): any two print requests that got a file name got
\* different file names and different window labels.  The timestamp has
\* whole seconds, so two requests in one second share the label, and with
\* the same sanitized title the file name: it does not hold.
C23_DistinctNamesAndLabels ==
  \A j, k \in Jobs :
    (j # k /\ job[j].name # NoName /\ job[k].name # NoName) =>
      /\ job[j].name # job[k].name
      /\ job[j].name.stamp # job[k].name.stamp

\* ---------------------------------------- specification SpecThreads ------
\* The threads of print requests whose statements all succeed (a request
\* still fails when its label is in use), with close_print_window and the
\* clock; the threads run on.
NextThreads ==
  \/ \E j \in Jobs, title \in Titles : print_request(j, title, "ok")
  \/ \E j \in Jobs : thread_step(j)
  \/ \E label \in 1..MaxSeconds, io \in StoreOutcomes : close_print_window(label, io)
  \/ Tick
SpecThreads == InitWindows /\ [][NextThreads]_vars /\ ThreadsRun

\* The requests whose window close_print_window closed before their thread
\* called close().
ClosedEarly == {j \in Waiting : j \notin windows}

\* C29: when close_print_window closed the window of a request whose thread
\* still waits, the thread goes on to call close(), the call fails, which
\* is only recorded, and the thread ends (no request stays for ever with a
\* window closed early and a waiting thread); the close() of a thread closes no
\* window but its own and changes no other request; a window that was
\* closed is never open again.
C29_EarlyCloseThenThreadClose ==
  /\ [][\A j \in Jobs :
          thread_close(j) =>
            /\ windows' = windows \ {j}
            /\ jpc'[j] = "closed"
            /\ (j \notin windows) => (windows' = windows /\ job'[j].closing = "failed")
            /\ \A k \in Jobs \ {j} : job'[k] = job[k] /\ jpc'[k] = jpc[k]]_vars
  /\ [][\A j \in Jobs :
          (jpc[j] \in {"render", "printed", "dismiss", "closed"} /\ j \notin windows)
            => j \notin windows']_vars
  /\ (ClosedEarly # {}) ~> (ClosedEarly = {})

\* C29 witness: the window of a request was closed early, its thread's
\* close() failed and the thread ended, and the window of another request
\* is still open.
C29_Witness ==
  \E j \in Jobs :
    /\ jpc[j] = "closed"
    /\ job[j].closing = "failed"
    /\ job[j].states = Lifecycle
    /\ windows # {}

\* ========================================== specification SpecLocks ======
\* The two Mutexes together: the registry commands and the two dialog
\* commands, statement by statement, beside the calls that reach the
\* pending-file slot.  A dialog command first shows its dialog, which blocks
\* until the user answers, and only then, with a path, goes into
\* add_to_recents_internal.  print_markdown and close_print_window take no
\* managed state and so neither Mutex.

DialogCall(kind) == [op |-> kind, path |-> NoPath]
DialogKinds == {"open_file_dialog", "save_file_dialog"}

\* Mutant of blocking_dialog: the Mutex is taken before the dialog is shown.
blocking_dialog_locked(c, kind) ==
  /\ pc[c] = "idle"
  /\ lock = Unlocked
  /\ lock' = c
  /\ call' = [call EXCEPT ![c] = DialogCall(kind)]
  /\ pc' = [pc EXCEPT ![c] = "dialog"]
  /\ UNCHANGED <<beyond, registry, calls, ret>>

\* open_file_dialog / save_file_dialog is invoked and calls
\* blocking_pick_file() / blocking_save_file(): the dialog is open.
blocking_dialog(c, kind) ==
  /\ pc[c] = "idle"
  /\ call' = [call EXCEPT ![c] = DialogCall(kind)]
  /\ pc' = [pc EXCEPT ![c] = "dialog"]
  /\ UNCHANGED <<beyond, registry, calls, lock, ret>>

\* The dialog returns: None (cancelled) and the command returns Ok(None),
\* or a path, with which the command calls add_to_recents_internal.
dialog_returns(c, pick) ==
  /\ pc[c] = "dialog"
  /\ call' = [call EXCEPT ![c] = IF pick = NoPath THEN call[c] ELSE TouchCall(pick)]
  /\ pc' = [pc EXCEPT ![c] = IF pick = NoPath THEN "done" ELSE "lock"]
  /\ UNCHANGED <<beyond, registry, calls, lock, ret>>

\* The statements of the registry handlers after their invocation.
registry_step(c) ==
  \/ lock_registry(c)
  \/ touch_retain(c)
  \/ touch_insert(c)
  \/ touch_truncate(c)
  \/ clear_vec(c)
  \/ \E io \in StoreOutcomes : store_save(c, io)
  \/ list_clone(c)
  \/ unlock_registry(c)

\* The statements of the calls on the pending-file slot after their
\* invocation.
pending_step(a) ==
  \/ pending_lock(a)
  \/ pending_store(a)
  \/ pending_emit(a)
  \/ pending_take_read(a)
  \/ pending_take_clear(a)
  \/ pending_unlock(a)

\* The calls on the slot that SpecLocks issues: one path is enough to
\* exercise the Mutex.
LockCalls == {SetCall(1), OpenCall(<<Url(TRUE, TRUE, 1)>>), TakeCall}

InitLocks ==
  /\ recents = <<>>
  /\ disk = StoreList(recents)
  /\ fs = ConcPaths
  /\ running = TRUE
  /\ last = NoMutation
  /\ listed = NotListed
  /\ tracking = FALSE
  /\ base = recents
  /\ touched = <<>>
  /\ pc = [c \in Commands |-> "idle"]
  /\ call = [c \in Commands |-> NoCall]
  /\ lock = Unlocked
  /\ ret = [c \in Commands |-> NotListed]
  /\ FilesIdle
  /\ PrintIdle
  /\ pending = NoWrite
  /\ written = <<>>
  /\ nwrites = 0
  /\ emitted = NoPath
  /\ pendingLock = Unlocked
  /\ ppc = [a \in Agents |-> "idle"]
  /\ pcall = [a \in Agents |-> NoPendingCall]
  /\ takes = <<>>

\* The registry commands and the dialogs.
NextDialog ==
  \/ \E c \in Commands, what \in {TouchCall(1), ListCall, ClearCall} : Invoke(c, what)
  \/ \E c \in Commands, kind \in DialogKinds : blocking_dialog(c, kind)
  \/ \E c \in Commands, pick \in {NoPath, 1} : dialog_returns(c, pick)
  \/ \E c \in Commands : registry_step(c)

NextLocks ==
  \/ NextDialog
  \/ \E a \in Agents, what \in LockCalls : InvokePending(a, what)
  \/ \E a \in Agents : pending_step(a)

\* A handler that can take its next statement takes it; a dialog may stay
\* open for ever, and nobody has to invoke anything.
CommandsRun == \A c \in Commands : WF_vars(registry_step(c))
HandlersRun == CommandsRun /\ \A a \in Agents : WF_vars(pending_step(a))

SpecLocks == InitLocks /\ [][NextLocks]_vars
SpecLocksFair == SpecLocks /\ HandlersRun

\* ----------------------------------------- specification SpecDialog ------
\* The registry commands and the dialogs alone: nothing reaches the
\* pending-file slot.
SpecDialog == InitLocks /\ [][NextDialog]_vars
SpecDialogFair == SpecDialog /\ CommandsRun

\* --------------------------------------- claims under SpecDialogFair -----
\* The commands whose dialog is open, and the commands that have asked for
\* the Mutex or hold it.
DialogOpen == {c \in Commands : pc[c] = "dialog"}
AtRegistry == {c \in Commands : pc[c] \notin {"idle", "dialog", "done"}}

\* C27: a command whose dialog is open holds no Mutex, and takes the
\* registry Mutex only after the dialog has returned a path; the commands
\* that ask for the Mutex meanwhile get it and return, the dialog staying
\* open; a dialog that is cancelled leaves the Vec and the store file as
\* they were and the command returns without taking the Mutex.
C27_DialogHoldsNoLock ==
  /\ [](\A c \in DialogOpen : lock # c)
  /\ [](pendingLock = Unlocked)
  /\ [][\A c \in Commands :
          /\ dialog_returns(c, NoPath) =>
               (recents' = recents /\ disk' = disk /\ lock' = lock /\ pc'[c] = "done")
          /\ lock_registry(c) => pc[c] # "dialog"]_vars
  /\ (DialogOpen # {} /\ AtRegistry # {}) ~> (AtRegistry = {})

\* C27 witness: a dialog is open, and a get_recent_files invoked beside it
\* has taken the Mutex and returned.
C27_Witness ==
  \E c, d \in Commands :
    /\ pc[c] = "dialog"
    /\ call[d].op = "list" /\ pc[d] = "done"
    /\ ret[d] = Listed(recents)

\* --------------------------------------- claims under SpecLocksFair ------
\* The calls on the slot that hold its Mutex by where they stand
\* (on_open_url emits after its guard is dropped), and those that have asked
\* for it or hold it.
InPendingSection ==
  {a \in Agents : \/ ppc[a] \in {"store", "read", "clear", "unlock"}
                  \/ ppc[a] = "emit" /\ pcall[a].op = "set"}
AtSlot == {a \in Agents : ppc[a] # "idle"}

\* C28: each Mutex is held by exactly the handler that stands between its
\* lock() and its return, a registry command or a call on the slot, never
\* one handler for both; a handler that holds a Mutex can always take its
\* next statement, a handler that waits holds none; and every handler that
\* has asked for a Mutex gets it and returns, whatever the others do.
C28_NoDeadlock ==
  /\ [](\A c \in Commands : (lock = c) <=> (c \in InCriticalSection))
  /\ [](\A a \in Agents : (pendingLock = a) <=> (a \in InPendingSection))
  /\ [](\A c \in InCriticalSection : ENABLED registry_step(c))
  /\ [](\A a \in InPendingSection : ENABLED pending_step(a))
  /\ [][\A c \in Commands : registry_step(c) => pendingLock' = pendingLock]_vars
  /\ [][\A a \in Agents : pending_step(a) => lock' = lock]_vars
  /\ (AtRegistry # {} \/ AtSlot # {}) ~> (AtRegistry = {} /\ AtSlot = {})

\* C28 witness: a registry command and a call on the slot hold their
\* Mutexes at once while another command and another call wait for them.
C28_Witness ==
  \E c, d \in Commands, a, b \in Agents :
    /\ lock = c /\ pc[d] = "lock"
    /\ pendingLock = a /\ ppc[b] = "lock"

=============================================================================
